---- MODULE Spec2Model ----
(***************************************************************************)
(* Model of the ai-trip-planner edge function                              *)
(* (supabase/functions/ai-trip-planner/index.ts) together with the trips   *)
(* table it reads and writes, its row-level security policies, and the     *)
(* collaborators it calls (identity provider, inference gateway).          *)
(*                                                                         *)
(* JavaScript values are tagged records; strings are sequences of          *)
(* one-character strings so that slicing, trimming and character removal   *)
(* are computed, not assumed.                                              *)
(***************************************************************************)
EXTENDS Integers, Sequences, FiniteSets, TLC

(***************************************************************************)
(* JavaScript values                                                       *)
(***************************************************************************)
Undefined == [t |-> "undefined"]
JsNull == [t |-> "null"]
Str(s) == [t |-> "string", v |-> s]
\* A number is v, or v + 1/2 when frac, or NaN when nan.
Num(n) == [t |-> "number", nan |-> FALSE, v |-> n, frac |-> FALSE]
NumHalf(n) == [t |-> "number", nan |-> FALSE, v |-> n, frac |-> TRUE]
NaN == [t |-> "number", nan |-> TRUE, v |-> 0, frac |-> FALSE]
Arr(a) == [t |-> "array", v |-> a]
JsBool(b) == [t |-> "boolean", v |-> b]

\* JavaScript ToBoolean
Truthy(x) ==
  CASE x.t = "undefined" -> FALSE
    [] x.t = "null" -> FALSE
    [] x.t = "string" -> Len(x.v) > 0
    [] x.t = "number" -> ~x.nan /\ (x.v # 0 \/ x.frac)
    [] x.t = "boolean" -> x.v
    [] OTHER -> TRUE

DigitChars == <<"0", "1", "2", "3", "4", "5", "6", "7", "8", "9">>
IsDigit(c) == \E k \in 1..10 : DigitChars[k] = c
DigitVal(c) == (CHOOSE k \in 1..10 : DigitChars[k] = c) - 1
HexChars == {"a", "b", "c", "d", "e", "f", "A", "B", "C", "D", "E", "F"}
\* The white space of trim() and of Number(), as far as the model has it
WhiteSpace == {" ", "\t", "\n", "\r", "\f"}

RECURSIVE DigitsVal(_)
DigitsVal(s) ==
  IF Len(s) = 0 THEN 0
  ELSE 10 * DigitsVal(SubSeq(s, 1, Len(s) - 1)) + DigitVal(s[Len(s)])

RECURSIVE TrimLeft(_)
TrimLeft(s) ==
  IF Len(s) > 0 /\ s[1] \in WhiteSpace THEN TrimLeft(Tail(s)) ELSE s

RECURSIVE TrimRight(_)
TrimRight(s) ==
  IF Len(s) > 0 /\ s[Len(s)] \in WhiteSpace
  THEN TrimRight(SubSeq(s, 1, Len(s) - 1)) ELSE s

\* String.prototype.trim
Trim(s) == TrimRight(TrimLeft(s))

\* String.prototype.slice(0, n) for n >= 0
Slice0(s, n) == SubSeq(s, 1, IF Len(s) < n THEN Len(s) ELSE n)

\* JavaScript Number(s) of a string that is a run of digits between blanks
\* (the empty string is 0), or text that is no numeric literal
StringToNumber(chars) ==
  LET s == Trim(chars) IN
  IF \A k \in 1..Len(s) : IsDigit(s[k]) THEN Num(DigitsVal(s)) ELSE NaN

\* JavaScript Number(x) on the values a decoded JSON body can hold; an array
\* converts through its string, which is its only element's when that is a
\* number or a string
ToNumber(x) ==
  CASE x.t = "number" -> x
    [] x.t = "null" -> Num(0)
    [] x.t = "boolean" -> IF x.v THEN Num(1) ELSE Num(0)
    [] x.t = "string" -> StringToNumber(x.v)
    [] x.t = "array" ->
         IF Len(x.v) = 0 THEN Num(0)
         ELSE IF Len(x.v) = 1 THEN
           (IF x.v[1].t = "number" THEN x.v[1]
            ELSE IF x.v[1].t = "string" THEN StringToNumber(x.v[1].v)
            ELSE IF x.v[1].t \in {"null", "undefined"} THEN Num(0)
            ELSE NaN)
         ELSE NaN
    [] OTHER -> NaN

\* x < k and x > k for an integer k (false for NaN, as in JavaScript)
NumLt(x, k) == ~x.nan /\ x.v < k
\* The comparison on the whole part alone
NumGtWholePart(x, k) == ~x.nan /\ x.v > k
NumGt(x, k) == ~x.nan /\ (x.v > k \/ (x.v = k /\ x.frac))
NumIsInteger(x) == ~x.nan /\ ~x.frac

(***************************************************************************)
(* Input validation helpers (index.ts 11-27)                               *)
(***************************************************************************)
UuidDashes == {9, 14, 19, 24}

isValidUUID(s) ==
  /\ Len(s) = 36
  /\ \A k \in 1..36 :
       IF k \in UuidDashes THEN s[k] = "-"
       ELSE IsDigit(s[k]) \/ s[k] \in HexChars

\* /^\d{4}-\d{2}-\d{2}$/
MatchesDateRegex(s) ==
  /\ Len(s) = 10
  /\ \A k \in 1..10 : IF k \in {5, 8} THEN s[k] = "-" ELSE IsDigit(s[k])

DateYear(s) == DigitsVal(SubSeq(s, 1, 4))
DateMonth(s) == DigitsVal(SubSeq(s, 6, 7))
DateDay(s) == DigitsVal(SubSeq(s, 9, 10))

\* Days since 1970-01-01 of year y, month m, day d (proleptic Gregorian);
\* a day past the end of the month runs on into the next month, as MakeDay.
DaysFromCivil(y, m, d) ==
  LET yy == IF m <= 2 THEN y - 1 ELSE y
      era == yy \div 400
      yoe == yy - era * 400
      mp == IF m > 2 THEN m - 3 ELSE m + 9
      doy == (153 * mp + 2) \div 5 + d - 1
      doe == yoe * 365 + yoe \div 4 - yoe \div 100 + doy
  IN era * 146097 + doe - 719468

\* (1000 * 60 * 60 * 24) milliseconds.  Times are counted in minutes: every
\* time the code handles is a whole number of minutes.
DayLength == 60 * 24

\* new Date(str).getTime() for a string matching the date regex; the parser
\* accepts months 1..12 and days 1..31 and yields NaN otherwise.
DateParses(s) ==
  /\ DateMonth(s) \in 1..12
  /\ DateDay(s) \in 1..31

DateTime(s) == DaysFromCivil(DateYear(s), DateMonth(s), DateDay(s)) * DayLength

isValidDateString(s) == MatchesDateRegex(s) /\ DateParses(s)

StrippedChars == {"<", ">", "{", "}"}

\* The pattern without its g flag: only the first match is removed
RECURSIVE RemoveFirstStripped(_)
RemoveFirstStripped(s) ==
  IF Len(s) = 0 THEN s
  ELSE IF s[1] \in StrippedChars THEN Tail(s)
  ELSE <<s[1]>> \o RemoveFirstStripped(Tail(s))

sanitizeStringFirstMatchOnly(x, maxLength) ==
  IF x.t # "string" THEN <<>>
  ELSE RemoveFirstStripped(Slice0(x.v, maxLength))

sanitizeString(x, maxLength) ==
  IF x.t # "string" THEN <<>>
  ELSE SelectSeq(Slice0(x.v, maxLength), LAMBDA c : c \notin StrippedChars)

\* Math.ceil(a / b) for b > 0
CeilDiv(a, b) == IF a % b = 0 THEN a \div b ELSE a \div b + 1

(***************************************************************************)
(* Messages are sequences of text fragments, so that String.includes of a  *)
(* fragment is membership of that fragment.                                *)
(***************************************************************************)
Msg(text) == <<text>>
Includes(m, fragment) == \E k \in 1..Len(m) : m[k] = fragment

RECURSIVE NatToStr(_)
NatToStr(n) ==
  IF n < 10 THEN <<DigitChars[n + 1]>>
  ELSE NatToStr(n \div 10) \o <<DigitChars[(n % 10) + 1]>>

RECURSIVE JoinStrings(_, _)
JoinStrings(xs, sep) ==
  IF Len(xs) = 0 THEN <<>>
  ELSE IF Len(xs) = 1 THEN xs[1]
  ELSE xs[1] \o sep \o JoinStrings(Tail(xs), sep)

\* JavaScript String(x) of a primitive
PrimToString(x) ==
  CASE x.t = "string" -> x.v
    [] x.t = "number" ->
         IF x.nan THEN <<"N", "a", "N">>
         ELSE IF x.frac THEN NatToStr(x.v) \o <<".", "5">>
         ELSE NatToStr(x.v)
    [] x.t = "null" -> <<"n", "u", "l", "l">>
    [] OTHER -> <<"u", "n", "d", "e", "f", "i", "n", "e", "d">>

\* JavaScript String(x); an array is its elements joined by ","
JsString(x) ==
  IF x.t = "array"
  THEN JoinStrings([k \in 1..Len(x.v) |->
                      IF x.v[k].t \in {"null", "undefined"} THEN <<>>
                      ELSE PrimToString(x.v[k])], <<",">>)
  ELSE PrimToString(x)

(***************************************************************************)
(* validateTripInput (index.ts 29-122)                                     *)
(***************************************************************************)
MaxDestination == 200
MaxPreferenceLen == 50
MaxPreferences == 15
MaxDurationDays == 90
MinTravelers == 1
MaxTravelers == 20
MaxBudget == 100000000

Obj(tripId, destination, startDate, endDate, travelers, budget, preferences) ==
  [t |-> "object", tripId |-> tripId, destination |-> destination,
   startDate |-> startDate, endDate |-> endDate, travelers |-> travelers,
   budget |-> budget, preferences |-> preferences]

\* The properties validateTripInput reads; every property of a value that
\* is an array (typeof 'object') is undefined.
Field(body, name) == IF body.t = "object" THEN body[name] ELSE Undefined

Reject(text) == [ok |-> FALSE, error |-> Msg(text)]

\* Both days counted, the last as well as the first
durationOfInclusive(startDate, endDate) ==
  CeilDiv(DateTime(endDate) - DateTime(startDate), DayLength) + 1

durationOf(startDate, endDate) ==
  CeilDiv(DateTime(endDate) - DateTime(startDate), DayLength)

\* The handler's durationDays, computed again from the validated dates and
\* written into the prompt (index.ts 311-313, 318)
durationDays(validatedInput) ==
  CeilDiv(DateTime(validatedInput.endDate) - DateTime(validatedInput.startDate),
          DayLength)

\* Without the last filter: entries that became empty stay
sanitizePreferencesKeepingEmpty(prefs) ==
  LET strings == SelectSeq(prefs, LAMBDA p : p.t = "string")
  IN [k \in 1..Len(strings) |-> sanitizeString(strings[k], MaxPreferenceLen)]

sanitizePreferences(prefs) ==
  LET strings == SelectSeq(prefs, LAMBDA p : p.t = "string")
      mapped == [k \in 1..Len(strings) |-> sanitizeString(strings[k], MaxPreferenceLen)]
  IN SelectSeq(mapped, LAMBDA p : Len(p) > 0)

\* The budget rule placed before the travelers rule
validateTripInputBudgetFirst(body) ==
  LET tripId == Field(body, "tripId")
      destination == Field(body, "destination")
      startDate == Field(body, "startDate")
      endDate == Field(body, "endDate")
      travelersIn == Field(body, "travelers")
      budgetIn == Field(body, "budget")
      prefsIn == Field(body, "preferences")
      travelers == IF travelersIn.t # "undefined" THEN ToNumber(travelersIn) ELSE Num(1)
      budget == IF budgetIn.t \notin {"undefined", "null"}
                THEN ToNumber(budgetIn) ELSE JsNull
  IN
  IF ~Truthy(body) \/ body.t \notin {"object", "array"}
    THEN Reject("Invalid request body")
  ELSE IF ~Truthy(tripId) \/ ~isValidUUID(JsString(tripId))
    THEN Reject("Invalid or missing tripId")
  ELSE IF ~Truthy(destination) \/ destination.t # "string"
          \/ Len(Trim(destination.v)) = 0
    THEN Reject("Destination is required")
  ELSE IF Len(destination.v) > MaxDestination
    THEN Reject("Destination must be less than 200 characters")
  ELSE IF ~Truthy(startDate) \/ ~isValidDateString(JsString(startDate))
    THEN Reject("Invalid or missing startDate (format: YYYY-MM-DD)")
  ELSE IF ~Truthy(endDate) \/ ~isValidDateString(JsString(endDate))
    THEN Reject("Invalid or missing endDate (format: YYYY-MM-DD)")
  ELSE IF DateTime(JsString(endDate)) < DateTime(JsString(startDate))
    THEN Reject("End date must be after start date")
  ELSE IF durationOf(JsString(startDate), JsString(endDate)) > MaxDurationDays
    THEN Reject("Trip duration cannot exceed 90 days")
  ELSE IF budget.t # "null"
          /\ (budget.nan \/ NumLt(budget, 0) \/ NumGt(budget, MaxBudget))
    THEN Reject("Budget must be a positive number")
  ELSE IF travelers.nan \/ NumLt(travelers, MinTravelers)
          \/ NumGt(travelers, MaxTravelers) \/ ~NumIsInteger(travelers)
    THEN Reject("Travelers must be an integer between 1 and 20")
  ELSE IF prefsIn.t # "undefined" /\ prefsIn.t # "array"
    THEN Reject("Preferences must be an array")
  ELSE IF prefsIn.t # "undefined" /\ Len(prefsIn.v) > MaxPreferences
    THEN Reject("Maximum 15 preferences allowed")
  ELSE [ok |-> TRUE,
        value |-> [tripId |-> JsString(tripId),
                   destination |-> sanitizeString(Str(JsString(destination)), MaxDestination),
                   startDate |-> JsString(startDate),
                   endDate |-> JsString(endDate),
                   travelers |-> travelers,
                   budget |-> budget,
                   preferences |-> IF prefsIn.t # "undefined"
                                   THEN sanitizePreferences(prefsIn.v) ELSE <<>>]]

validateTripInput(body) ==
  LET tripId == Field(body, "tripId")
      destination == Field(body, "destination")
      startDate == Field(body, "startDate")
      endDate == Field(body, "endDate")
      travelersIn == Field(body, "travelers")
      budgetIn == Field(body, "budget")
      prefsIn == Field(body, "preferences")
      travelers == IF travelersIn.t # "undefined" THEN ToNumber(travelersIn) ELSE Num(1)
      budget == IF budgetIn.t \notin {"undefined", "null"}
                THEN ToNumber(budgetIn) ELSE JsNull
  IN
  IF ~Truthy(body) \/ body.t \notin {"object", "array"}
    THEN Reject("Invalid request body")
  ELSE IF ~Truthy(tripId) \/ ~isValidUUID(JsString(tripId))
    THEN Reject("Invalid or missing tripId")
  ELSE IF ~Truthy(destination) \/ destination.t # "string"
          \/ Len(Trim(destination.v)) = 0
    THEN Reject("Destination is required")
  ELSE IF Len(destination.v) > MaxDestination
    THEN Reject("Destination must be less than 200 characters")
  ELSE IF ~Truthy(startDate) \/ ~isValidDateString(JsString(startDate))
    THEN Reject("Invalid or missing startDate (format: YYYY-MM-DD)")
  ELSE IF ~Truthy(endDate) \/ ~isValidDateString(JsString(endDate))
    THEN Reject("Invalid or missing endDate (format: YYYY-MM-DD)")
  ELSE IF DateTime(JsString(endDate)) < DateTime(JsString(startDate))
    THEN Reject("End date must be after start date")
  ELSE IF durationOf(JsString(startDate), JsString(endDate)) > MaxDurationDays
    THEN Reject("Trip duration cannot exceed 90 days")
  ELSE IF travelers.nan \/ NumLt(travelers, MinTravelers)
          \/ NumGt(travelers, MaxTravelers) \/ ~NumIsInteger(travelers)
    THEN Reject("Travelers must be an integer between 1 and 20")
  ELSE IF budget.t # "null"
          /\ (budget.nan \/ NumLt(budget, 0) \/ NumGt(budget, MaxBudget))
    THEN Reject("Budget must be a positive number")
  ELSE IF prefsIn.t # "undefined" /\ prefsIn.t # "array"
    THEN Reject("Preferences must be an array")
  ELSE IF prefsIn.t # "undefined" /\ Len(prefsIn.v) > MaxPreferences
    THEN Reject("Maximum 15 preferences allowed")
  ELSE [ok |-> TRUE,
        value |-> [tripId |-> JsString(tripId),
                   destination |-> sanitizeString(Str(JsString(destination)), MaxDestination),
                   startDate |-> JsString(startDate),
                   endDate |-> JsString(endDate),
                   travelers |-> travelers,
                   budget |-> budget,
                   preferences |-> IF prefsIn.t # "undefined"
                                   THEN sanitizePreferences(prefsIn.v) ELSE <<>>]]

(***************************************************************************)
(* normalizeJsonText (index.ts 127-151), character by character.  Each     *)
(* replace scans from the left; where the pattern matches, the match gives *)
(* way to its replacement and the scan goes on after the match.  Every     *)
(* quantifier of the four patterns is greedy and none can give back a      *)
(* character to make a later part match, so the first match tried is the   *)
(* only one.                                                               *)
(***************************************************************************)
Quote == "\""

\* \s and [\x00-\x1F\x7F], as far as the texts of the model have them
RegexSpace == {" ", "\t", "\n", "\r", "\f"}
ControlChars == {"\t", "\n", "\r", "\f"}
\* [\n,}\]]
SeparatorChars == {"\n", ",", "}", "]"}

From(s, p) == SubSeq(s, p, Len(s))

\* The first position from p on that holds no character of the class
RECURSIVE SkipSpaces(_, _)
SkipSpaces(s, p) ==
  IF p <= Len(s) /\ s[p] \in RegexSpace THEN SkipSpaces(s, p + 1) ELSE p

RECURSIVE SkipDigits(_, _)
SkipDigits(s, p) ==
  IF p <= Len(s) /\ IsDigit(s[p]) THEN SkipDigits(s, p + 1) ELSE p

\* \d+(?:\.\d+)? at p: the position after the match, 0 when there is none
NumberEnd(s, p) ==
  LET whole == SkipDigits(s, p)
      fraction == SkipDigits(s, whole + 1)
  IN IF whole = p THEN 0
     ELSE IF whole <= Len(s) /\ s[whole] = "." /\ fraction > whole + 1
     THEN fraction
     ELSE whole

\* (?=\s*[\n,}\]]) at p
FollowedBySeparator(s, p) ==
  \E q \in p..Len(s) :
    /\ s[q] \in SeparatorChars
    /\ \A k \in p..(q - 1) : s[k] \in RegexSpace

\* text.replace(/,\s*([}\]])/g, '$1')
RECURSIVE removeTrailingCommas(_)
removeTrailingCommas(s) ==
  IF Len(s) = 0 THEN s
  ELSE LET q == SkipSpaces(s, 2) IN
       IF s[1] = "," /\ q <= Len(s) /\ s[q] \in {"}", "]"}
       THEN <<s[q]>> \o removeTrailingCommas(From(s, q + 1))
       ELSE <<s[1]>> \o removeTrailingCommas(Tail(s))

\* text.replace(/[\x00-\x1F\x7F]/g, '')
removeControlChars(s) == SelectSeq(s, LAMBDA c : c \notin ControlChars)

\* A literal of the number pattern as numerator and denominator
LiteralValue(lit) ==
  LET digits == SelectSeq(lit, LAMBDA c : c # ".")
      dot == IF \E k \in 1..Len(lit) : lit[k] = "."
             THEN CHOOSE k \in 1..Len(lit) : lit[k] = "." ELSE Len(lit)
  IN [num |-> DigitsVal(digits), den |-> 10 ^ (Len(lit) - dot)]

\* Math.round(Number(a) * Number(b)), halves rounded up; the products of
\* the model are exact in floating point and finite
roundedProduct(a, b) ==
  LET x == LiteralValue(a)
      y == LiteralValue(b)
  IN (2 * x.num * y.num + x.den * y.den) \div (2 * x.den * y.den)

\* /:\s*(\d+(?:\.\d+)?)\s*\*\s*(\d+(?:\.\d+)?)(?=\s*[\n,}\]])/ at the head
\* of s: where a and b lie, and the position after the match
multiplicationAt(s) ==
  LET a == SkipSpaces(s, 2)
      aEnd == NumberEnd(s, a)
      star == SkipSpaces(s, aEnd)
      b == SkipSpaces(s, star + 1)
      bEnd == NumberEnd(s, b)
  IN IF /\ Len(s) > 0 /\ s[1] = ":"
        /\ aEnd > 0
        /\ star <= Len(s) /\ s[star] = "*"
        /\ bEnd > 0
        /\ FollowedBySeparator(s, bEnd)
     THEN [found |-> TRUE, a |-> SubSeq(s, a, aEnd - 1),
           b |-> SubSeq(s, b, bEnd - 1), end |-> bEnd]
     ELSE [found |-> FALSE]

\* The multiplication replace that takes the sum of a and b
RECURSIVE addMultiplications(_)
addMultiplications(s) ==
  IF Len(s) = 0 THEN s
  ELSE LET m == multiplicationAt(s) IN
       IF m.found
       THEN <<":", " ">> \o NatToStr(DigitsVal(m.a) + DigitsVal(m.b))
              \o addMultiplications(From(s, m.end))
       ELSE <<s[1]>> \o addMultiplications(Tail(s))

RECURSIVE foldMultiplications(_)
foldMultiplications(s) ==
  IF Len(s) = 0 THEN s
  ELSE LET m == multiplicationAt(s) IN
       IF m.found
       THEN <<":", " ">> \o NatToStr(roundedProduct(m.a, m.b))
              \o foldMultiplications(From(s, m.end))
       ELSE <<s[1]>> \o foldMultiplications(Tail(s))

\* The first position from p on that holds ")", 0 when there is none
RECURSIVE ClosingParen(_, _)
ClosingParen(s, p) ==
  IF p > Len(s) THEN 0
  ELSE IF s[p] = ")" THEN p
  ELSE ClosingParen(s, p + 1)

\* /:\s*(\d+(?:\.\d+)?)(?:\s*\([^)]*\))(?=\s*[\n,}\]])/ at the head of s
parentheticalAt(s) ==
  LET n == SkipSpaces(s, 2)
      nEnd == NumberEnd(s, n)
      open == SkipSpaces(s, nEnd)
      close == ClosingParen(s, open + 1)
  IN IF /\ Len(s) > 0 /\ s[1] = ":"
        /\ nEnd > 0
        /\ open <= Len(s) /\ s[open] = "("
        /\ close > 0
        /\ FollowedBySeparator(s, close + 1)
     THEN [found |-> TRUE, num |-> SubSeq(s, n, nEnd - 1), end |-> close + 1]
     ELSE [found |-> FALSE]

RECURSIVE stripParentheticals(_)
stripParentheticals(s) ==
  IF Len(s) = 0 THEN s
  ELSE LET m == parentheticalAt(s) IN
       IF m.found
       THEN <<":", " ">> \o m.num \o stripParentheticals(From(s, m.end))
       ELSE <<s[1]>> \o stripParentheticals(Tail(s))

normalizeJsonText(input) ==
  stripParentheticals(foldMultiplications(removeControlChars(
    removeTrailingCommas(input))))

(***************************************************************************)
(* extractJsonCandidate (index.ts 153-161), character by character         *)
(***************************************************************************)
\* The grave accent U+0060, which a string of this language cannot hold
Backtick == "backtick"

StartsWithFence(s) ==
  Len(s) >= 3 /\ s[1] = Backtick /\ s[2] = Backtick /\ s[3] = Backtick

\* Three backticks and json, in any case
StartsWithJsonFence(s) ==
  /\ StartsWithFence(s)
  /\ Len(s) >= 7
  /\ s[4] \in {"j", "J"} /\ s[5] \in {"s", "S"}
  /\ s[6] \in {"o", "O"} /\ s[7] \in {"n", "N"}

\* The first replace: the json fence and the white space after it
RECURSIVE removeJsonFences(_)
removeJsonFences(s) ==
  IF Len(s) = 0 THEN s
  ELSE IF StartsWithJsonFence(s) THEN removeJsonFences(From(s, SkipSpaces(s, 8)))
  ELSE <<s[1]>> \o removeJsonFences(Tail(s))

\* The second replace: any fence left and the white space after it
RECURSIVE removeFences(_)
removeFences(s) ==
  IF Len(s) = 0 THEN s
  ELSE IF StartsWithFence(s) THEN removeFences(From(s, SkipSpaces(s, 4)))
  ELSE <<s[1]>> \o removeFences(Tail(s))

\* indexOf(c) and lastIndexOf(c), counted from 1; 0 for the -1 of the code
RECURSIVE IndexFrom(_, _, _)
IndexFrom(s, c, p) ==
  IF p > Len(s) THEN 0
  ELSE IF s[p] = c THEN p
  ELSE IndexFrom(s, c, p + 1)

indexOf(s, c) == IndexFrom(s, c, 1)

RECURSIVE LastIndexFrom(_, _, _)
LastIndexFrom(s, c, p) ==
  IF p < 1 THEN 0
  ELSE IF s[p] = c THEN p
  ELSE LastIndexFrom(s, c, p - 1)

lastIndexOf(s, c) == LastIndexFrom(s, c, Len(s))

cleanedText(text) == Trim(removeFences(removeJsonFences(Trim(text))))

\* The candidate that ends at the first '}' after the first '{'
extractJsonCandidateToFirstClose(text) ==
  LET cleaned == cleanedText(text)
      start == indexOf(cleaned, "{")
      end == IndexFrom(cleaned, "}", start + 1)
  IN IF start = 0 \/ end = 0 \/ end <= start
     THEN [ok |-> FALSE, error |-> <<"No JSON object found in AI response">>]
     ELSE [ok |-> TRUE, value |-> SubSeq(cleaned, start, end)]

\* extractJsonCandidate on the characters of the text: the candidate, or
\* the message of the error thrown
extractJsonCandidateFrom(text) ==
  LET cleaned == cleanedText(text)
      start == indexOf(cleaned, "{")
      end == lastIndexOf(cleaned, "}")
  IN IF start = 0 \/ end = 0 \/ end <= start
     THEN [ok |-> FALSE, error |-> <<"No JSON object found in AI response">>]
     ELSE [ok |-> TRUE, value |-> SubSeq(cleaned, start, end)]

(***************************************************************************)
(* JSON.parse (index.ts 468, 494) on texts made of objects, arrays,        *)
(* strings and unsigned numbers                                            *)
(***************************************************************************)
JsonSpace == {" ", "\t", "\n", "\r"}

RECURSIVE SkipJsonSpace(_, _)
SkipJsonSpace(s, p) ==
  IF p <= Len(s) /\ s[p] \in JsonSpace THEN SkipJsonSpace(s, p + 1) ELSE p

\* The closing quote of the string whose characters start at p, 0 when the
\* string is not closed or holds a raw control character
RECURSIVE StringEnd(_, _)
StringEnd(s, p) ==
  IF p > Len(s) THEN 0
  ELSE IF s[p] = Quote THEN p
  ELSE IF s[p] \in ControlChars THEN 0
  ELSE IF s[p] = "\\" THEN StringEnd(s, p + 2)
  ELSE StringEnd(s, p + 1)

\* The position after the number at p, 0 when a zero leads it
JsonNumberEnd(s, p) ==
  IF s[p] = "0" /\ p < Len(s) /\ IsDigit(s[p + 1]) THEN 0 ELSE NumberEnd(s, p)

ParseFailure == [ok |-> FALSE]
ParsedUpTo(value, end) == [ok |-> TRUE, value |-> value, end |-> end]

RECURSIVE ParseValue(_, _)
RECURSIVE ParseMembers(_, _, _)
RECURSIVE ParseElements(_, _, _)

\* The value that starts at or after p
ParseValue(s, p) ==
  LET q == SkipJsonSpace(s, p) IN
  IF q > Len(s) THEN ParseFailure
  ELSE IF s[q] = "{" THEN
    (IF SkipJsonSpace(s, q + 1) <= Len(s) /\ s[SkipJsonSpace(s, q + 1)] = "}"
     THEN ParsedUpTo([t |-> "object", members |-> <<>>], SkipJsonSpace(s, q + 1) + 1)
     ELSE ParseMembers(s, q + 1, <<>>))
  ELSE IF s[q] = "[" THEN
    (IF SkipJsonSpace(s, q + 1) <= Len(s) /\ s[SkipJsonSpace(s, q + 1)] = "]"
     THEN ParsedUpTo([t |-> "array", items |-> <<>>], SkipJsonSpace(s, q + 1) + 1)
     ELSE ParseElements(s, q + 1, <<>>))
  ELSE IF s[q] = Quote THEN
    (IF StringEnd(s, q + 1) = 0 THEN ParseFailure
     ELSE ParsedUpTo(Str(SubSeq(s, q + 1, StringEnd(s, q + 1) - 1)), StringEnd(s, q + 1) + 1))
  ELSE IF IsDigit(s[q]) THEN
    (IF JsonNumberEnd(s, q) = 0 THEN ParseFailure
     ELSE ParsedUpTo([t |-> "number", literal |-> SubSeq(s, q, JsonNumberEnd(s, q) - 1)],
                  JsonNumberEnd(s, q)))
  ELSE ParseFailure

\* The members of an object from p on, those before p being sofar
ParseMembers(s, p, sofar) ==
  LET k == SkipJsonSpace(s, p)
      kEnd == StringEnd(s, k + 1)
      colon == SkipJsonSpace(s, kEnd + 1)
  IN
  IF k > Len(s) \/ s[k] # Quote \/ kEnd = 0 THEN ParseFailure
  ELSE IF colon > Len(s) \/ s[colon] # ":" THEN ParseFailure
  ELSE LET v == ParseValue(s, colon + 1) IN
       IF ~v.ok THEN ParseFailure
       ELSE LET next == SkipJsonSpace(s, v.end)
                members == Append(sofar, [key |-> SubSeq(s, k + 1, kEnd - 1),
                                          value |-> v.value])
            IN IF next > Len(s) THEN ParseFailure
               ELSE IF s[next] = "}" THEN
                 ParsedUpTo([t |-> "object", members |-> members], next + 1)
               ELSE IF s[next] = "," THEN ParseMembers(s, next + 1, members)
               ELSE ParseFailure

ParseElements(s, p, sofar) ==
  LET v == ParseValue(s, p) IN
  IF ~v.ok THEN ParseFailure
  ELSE LET next == SkipJsonSpace(s, v.end)
           items == Append(sofar, v.value)
       IN IF next > Len(s) THEN ParseFailure
          ELSE IF s[next] = "]" THEN ParsedUpTo([t |-> "array", items |-> items], next + 1)
          ELSE IF s[next] = "," THEN ParseElements(s, next + 1, items)
          ELSE ParseFailure

JsonParse(s) ==
  LET v == ParseValue(s, 1) IN
  IF v.ok /\ SkipJsonSpace(s, v.end) > Len(s)
  THEN [ok |-> TRUE, value |-> v.value]
  ELSE ParseFailure

(***************************************************************************)
(* The trips table and its row-level security (migration, 32-70)           *)
(***************************************************************************)
Users == {"u1", "u2"}

\* A well-formed UUID made of one repeated hexadecimal digit
UuidOf(c) == [k \in 1..36 |-> IF k \in UuidDashes THEN "-" ELSE c]
TripA == UuidOf("a")
TripB == UuidOf("b")

TripStatuses == {"draft", "planned", "active", "completed"}

\* A row of public.trips: the columns the handler reads or writes, the
\* title as one of the columns it does neither with, and updated_at, told
\* in updates of the row since the first state
TripRow(id, owner, status, doc) ==
  [id |-> id, user_id |-> owner, status |-> status, ai_itinerary |-> doc,
   title |-> "Trip to Paris", updated_at |-> 0]

\* trigger update_trips_updated_at, BEFORE UPDATE FOR EACH ROW:
\* NEW.updated_at = now(), a time later than the one stored
update_updated_at_column(new) == [new EXCEPT !.updated_at = @ + 1]

\* policy "Users can view their own trips": USING (auth.uid() = user_id)
CanSelect(uid, row) == uid = row.user_id

\* policy "Users can delete their own trips": USING (auth.uid() = user_id)
CanDelete(uid, row) == uid = row.user_id

\* .from('trips').select('user_id').eq('id', tripId) as seen by a client
\* whose requests carry the credential of uid
SelectTrip(table, uid, tripId) ==
  {[user_id |-> row.user_id] :
     row \in {r \in table : r.id = tripId /\ CanSelect(uid, r)}}

\* An update that merges the document into the stored one and leaves the
\* status of a trip that is under way or over
UpdateTripMerging(table, tripId, userId, doc, status) ==
  {IF row.id = tripId /\ row.user_id = userId
   THEN update_updated_at_column(
          [row EXCEPT !.ai_itinerary =
                        IF row.ai_itinerary.t = "object" /\ doc.overview = Undefined
                        THEN [doc EXCEPT !.overview = row.ai_itinerary.overview]
                        ELSE doc,
                      !.status = IF row.status \in {"active", "completed"}
                                 THEN row.status ELSE status])
   ELSE row : row \in table}

\* The update without .eq('user_id', userId)
UpdateTripById(table, tripId, userId, doc, status) ==
  {IF row.id = tripId
   THEN update_updated_at_column([row EXCEPT !.ai_itinerary = doc, !.status = status])
   ELSE row : row \in table}

\* An update that writes the destination into the title as well
UpdateTripAndTitle(table, tripId, userId, doc, status) ==
  {IF row.id = tripId /\ row.user_id = userId
   THEN update_updated_at_column(
          [row EXCEPT !.ai_itinerary = doc, !.status = status, !.title = "Paris"])
   ELSE row : row \in table}

\* .update({ai_itinerary, status}).eq('id', tripId).eq('user_id', userId)
\* through the service-role client, which bypasses row-level security
UpdateTrip(table, tripId, userId, doc, status) ==
  {IF row.id = tripId /\ row.user_id = userId
   THEN update_updated_at_column([row EXCEPT !.ai_itinerary = doc, !.status = status])
   ELSE row : row \in table}

(***************************************************************************)
(* Itinerary documents and gateway payloads                                *)
(***************************************************************************)
Doc(error, rawContent, overview) ==
  [t |-> "object", error |-> error, rawContent |-> rawContent,
   overview |-> overview]

Text(fragments) == Str(fragments)

GoodDoc == Doc(Undefined, Undefined, Str(<<"A weekend in Paris">>))
OtherDoc == Doc(Undefined, Undefined, Str(<<"Three days in Goa">>))
\* a syntactically valid object that carries an "error" member
ErrorFieldDoc == Doc(Str(<<"no data for this destination">>), Undefined, Undefined)
OldDoc == Doc(Undefined, Undefined, Str(<<"An earlier itinerary">>))

BusyMsg ==
  <<"AI service is ", "temporarily busy", ". Please ", "try again",
    " in a few minutes.">>
ServiceErrorMsg == <<"AI service error. Please ", "try again", ".">>
InternalErrorMsg == <<"Lovable AI internal error">>
NoContentMsg == <<"No content found in AI response">>
NoJsonObjectMsg == <<"No JSON object found in AI response">>
MissingRawContentMsg == <<"Missing rawContent for repair">>
NoRepairContentMsg == <<"No content found in AI repair response">>
InvalidFormatMsg ==
  <<"AI returned an invalid itinerary format. Please tap Generate/Regenerate Itinerary to ",
    "try again", ".">>

\* Model output texts.  `object` tells whether the text, once its code
\* fences are removed, has a '{' followed later by a '}'; `json` is what
\* JSON.parse makes of the normalized candidate: a document, or a
\* SyntaxError whose message quotes the offending text.
ModelText(name, object, json) ==
  [t |-> "string", v |-> <<name>>, object |-> object, json |-> json]

Parsed(doc) == [ok |-> TRUE, value |-> doc]
Thrown(message) == [ok |-> FALSE, error |-> message]

TextGood == ModelText("good itinerary", TRUE, Parsed(GoodDoc))
TextOther == ModelText("other itinerary", TRUE, Parsed(OtherDoc))
TextErrorField == ModelText("object with error member", TRUE, Parsed(ErrorFieldDoc))
TextProse == ModelText("prose without braces", FALSE, Thrown(NoJsonObjectMsg))
TextBroken ==
  ModelText("broken object", TRUE, Thrown(<<"Unexpected token 'x', \"{x}\" is not valid JSON">>))
TextBrokenQuoted ==
  ModelText("broken object quoting advice", TRUE,
            Thrown(<<"Unexpected token 'P', ...\"tips\": Please ", "try again",
                     " later\"... is not valid JSON">>))

ModelTexts ==
  {TextGood, TextOther, TextErrorField, TextProse, TextBroken, TextBrokenQuoted}

\* choices[0].error.metadata.raw: a string that JSON.parse turns into
\* {error: {status, code}} or fails on
RawMetadata(name, json) == [t |-> "string", v |-> <<name>>, json |-> json]
RawExhausted ==
  RawMetadata("status RESOURCE_EXHAUSTED",
              Parsed([status |-> "RESOURCE_EXHAUSTED", code |-> 8]))
Raw429 == RawMetadata("code 429", Parsed([status |-> "UNAVAILABLE", code |-> 429]))
RawInternal == RawMetadata("code 500", Parsed([status |-> "INTERNAL", code |-> 500]))
RawGarbled == RawMetadata("not json", Thrown(<<"Unexpected end of JSON input">>))

ErrorPayload(message) == [t |-> "object", message |-> message]
ChoiceError(message, raw) == [t |-> "object", message |-> message, raw |-> raw]

\* The decoded body of a gateway response, as far as the handler reads it:
\* data.error, data.choices[0].error, data.choices[0].message.content
GatewayData(error, choiceError, content) ==
  [error |-> error, choiceError |-> choiceError, content |-> content]

ProviderMsg == Str(<<"Provider returned error">>)
UpstreamRetryMsg == Str(<<"Upstream overloaded, ", "try again", " later">>)

ContentData == {GatewayData(Undefined, Undefined, c) : c \in ModelTexts}
NoContentData ==
  {GatewayData(Undefined, Undefined, c) : c \in {Undefined, JsNull, Str(<<>>), Num(42)}}
TopLevelErrorData ==
  {GatewayData(ErrorPayload(m), Undefined, Undefined) :
     m \in {Undefined, ProviderMsg, UpstreamRetryMsg}}
ChoiceErrorData ==
  {GatewayData(Undefined, ChoiceError(m, r), Undefined) :
     m \in {Undefined, ProviderMsg},
     r \in {Undefined, RawExhausted, Raw429, RawInternal, RawGarbled}}

GatewayBodies == ContentData \cup NoContentData \cup TopLevelErrorData \cup ChoiceErrorData

\* What one HTTP exchange with the gateway can produce
NotJson == [t |-> "notjson"]
HttpFailure == [kind |-> "transport", ok |-> FALSE, status |-> 0, body |-> NotJson]
HttpResponse(status, body) ==
  [kind |-> "response", ok |-> status \in 200..299, status |-> status, body |-> body]

HttpOutcomes ==
  {HttpFailure, HttpResponse(500, NotJson), HttpResponse(200, NotJson),
   HttpResponse(429, GatewayData(ErrorPayload(UpstreamRetryMsg), Undefined, Undefined)),
   HttpResponse(502, GatewayData(Undefined, Undefined, TextGood))}
  \cup {HttpResponse(200, d) : d \in GatewayBodies}

(***************************************************************************)
(* callLovableAi (index.ts 163-190)                                        *)
(***************************************************************************)
\* A client that does not look at response.ok
callLovableAiIgnoringStatus(http) ==
  IF http.kind = "transport" THEN Thrown(<<"error sending request">>)
  ELSE IF http.body = NotJson
    THEN Thrown(<<"Lovable AI gateway returned non-JSON response">>)
  ELSE Parsed(http.body)

callLovableAi(http) ==
  IF http.kind = "transport" THEN Thrown(<<"error sending request">>)
  ELSE IF ~http.ok THEN Thrown(<<"Lovable AI error: ", NatToStr(http.status)>>)
  ELSE IF http.body = NotJson
    THEN Thrown(<<"Lovable AI gateway returned non-JSON response">>)
  ELSE Parsed(http.body)

(***************************************************************************)
(* extractJsonCandidate, normalizeJsonText and JSON.parse as the handler   *)
(* chains them (index.ts 466-468 and 492-494)                              *)
(***************************************************************************)
extractJsonCandidate(text) ==
  IF text.object THEN Parsed(text) ELSE Thrown(NoJsonObjectMsg)

parseItinerary(text) ==
  LET candidate == extractJsonCandidate(text)
  IN IF candidate.ok THEN candidate.value.json ELSE candidate

(***************************************************************************)
(* First pass over the primary response (index.ts 433-469)                 *)
(***************************************************************************)
\* The metadata check of lines 447-456.  Its own throw of the "temporarily
\* busy" error happens inside the try whose catch ignores every error.
metadataCheckThrows(raw) ==
  /\ Truthy(raw)
  /\ raw.json.ok
  /\ (raw.json.value.status = "RESOURCE_EXHAUSTED" \/ raw.json.value.code = 429)

\* `catch (e) { }` of lines 453-455: whether an error thrown inside its try
\* leaves the block
escapesMetadataCatch(thrown) == FALSE

choiceErrorMessage(choiceError) ==
  IF escapesMetadataCatch(metadataCheckThrows(choiceError.raw)) THEN BusyMsg
  ELSE IF Truthy(choiceError.message) THEN choiceError.message.v
  ELSE ServiceErrorMsg

\* Result of the try block: the parsed itinerary, or the message of the
\* error thrown, with the value rawContent holds when the block is left.
firstPass(data) ==
  IF Truthy(data.error)
    THEN [ok |-> FALSE, rawContent |-> JsNull, extracted |-> FALSE,
          error |-> IF Truthy(data.error.message) THEN data.error.message.v
                    ELSE InternalErrorMsg]
  ELSE IF Truthy(data.choiceError)
    THEN [ok |-> FALSE, rawContent |-> JsNull, extracted |-> FALSE,
          error |-> choiceErrorMessage(data.choiceError)]
  ELSE IF ~Truthy(data.content) \/ data.content.t # "string"
    THEN [ok |-> FALSE, rawContent |-> data.content, extracted |-> FALSE,
          error |-> NoContentMsg]
  ELSE LET r == parseItinerary(data.content)
       IN IF r.ok
          THEN [ok |-> TRUE, rawContent |-> data.content, extracted |-> TRUE,
                itinerary |-> r.value]
          ELSE [ok |-> FALSE, rawContent |-> data.content, extracted |-> TRUE,
                error |-> r.error]

\* errorMessage.includes('temporarily busy') || errorMessage.includes('try again')
isRetryableMessage(m) == Includes(m, "temporarily busy") \/ Includes(m, "try again")

\* A placeholder that drops the raw output
placeholderWithoutRaw(rawContent) == Doc(Str(InvalidFormatMsg), JsNull, Undefined)

\* The placeholder of lines 499-502
placeholder(rawContent) ==
  Doc(Str(InvalidFormatMsg),
      IF Truthy(rawContent) THEN rawContent ELSE JsNull, Undefined)

(***************************************************************************)
(* repairJsonWithAi and the second pass (index.ts 192-210, 489-503)        *)
(***************************************************************************)
\* `if (!rawContent) throw`: whether a repair request goes out
repairIsAttempted(rawContent) == Truthy(rawContent)

\* What the second pass leaves in `itinerary`, given the HTTP exchange of
\* the repair request
secondPass(rawContent, http) ==
  LET repaired == callLovableAi(http)
  IN IF ~repaired.ok THEN placeholder(rawContent)
     ELSE LET content == repaired.value.content
          IN IF ~Truthy(content) \/ content.t # "string"
             THEN placeholder(rawContent)
             ELSE LET r == parseItinerary(content)
                  IN IF r.ok THEN r.value ELSE placeholder(rawContent)

\* A status that does not look at the document
nextStatusPlanned(itinerary) == "planned"

nextStatus(itinerary) == IF Truthy(itinerary.error) THEN "draft" ELSE "planned"

(***************************************************************************)
(* The prompt (index.ts 315-320): the parts of the template that depend on *)
(* the validated input                                                     *)
(***************************************************************************)
FlexibleSentence == <<"Budget is flexible.">>
GeneralSightseeing == <<"General sightseeing">>

budgetSentence(budget) ==
  IF Truthy(budget) THEN <<"Budget: ">> \o PrimToString(budget) \o <<".">>
  ELSE FlexibleSentence

sanitizedPreferences(preferences) ==
  LET joined == JoinStrings([k \in 1..Len(preferences) |->
                               sanitizeString(Str(preferences[k]), MaxPreferenceLen)],
                            <<",", " ">>)
  IN IF Len(joined) > 0 THEN joined ELSE GeneralSightseeing

buildPrompt(validatedInput) ==
  [destination |-> sanitizeString(Str(validatedInput.destination), MaxDestination),
   startDate |-> validatedInput.startDate,
   endDate |-> validatedInput.endDate,
   durationDays |-> durationDays(validatedInput),
   travelers |-> PrimToString(validatedInput.travelers),
   noun |-> IF validatedInput.travelers = Num(1) THEN "person" ELSE "people",
   budget |-> budgetSentence(validatedInput.budget),
   interests |-> sanitizedPreferences(validatedInput.preferences)]

(***************************************************************************)
(* Requests, responses and the environment of one deployment               *)
(***************************************************************************)
BearerPrefix == "Bearer "

\* authHeader.replace('Bearer ', ''): the first occurrence is removed
RECURSIVE RemoveFirst(_, _)
RemoveFirst(fragments, f) ==
  IF Len(fragments) = 0 THEN <<>>
  ELSE IF Head(fragments) = f THEN Tail(fragments)
  ELSE <<Head(fragments)>> \o RemoveFirst(Tail(fragments), f)

tokenOf(authHeader) == RemoveFirst(authHeader.v, BearerPrefix)

\* The identity the provider attaches to a credential, "none" when it
\* knows none
TokenUser(token) ==
  IF token = <<"jwt-u1">> THEN "u1"
  ELSE IF token = <<"jwt-u2">> THEN "u2"
  ELSE "none"

AuthHeaders ==
  {JsNull, Str(<<>>), Str(<<BearerPrefix>>), Str(<<BearerPrefix, "jwt-u1">>),
   Str(<<BearerPrefix, "jwt-u2">>), Str(<<BearerPrefix, "expired">>)}

Unparseable == [t |-> "unparseable"]

Paris == <<"P", "a", "r", "i", "s">>
June1 == <<"2", "0", "2", "4", "-", "0", "6", "-", "0", "1">>
June3 == <<"2", "0", "2", "4", "-", "0", "6", "-", "0", "3">>

BodyFor(tripId) ==
  Obj(Str(tripId), Str(Paris), Str(June1), Str(June3), Num(2), Num(50000),
      Arr(<<Str(<<"F", "o", "o", "d">>)>>))

RequestBodies ==
  {Unparseable, JsNull, BodyFor(TripA), BodyFor(TripB),
   Obj(Str(TripA), Str(Paris), Str(June3), Str(June1), Undefined, Undefined, Undefined)}

Request(method, authHeader, body) ==
  [method |-> method, authHeader |-> authHeader, body |-> body]

Requests ==
  {Request(m, h, b) : m \in {"POST", "OPTIONS"}, h \in AuthHeaders, b \in RequestBodies}

\* Which of the deployment's secrets are set
Environments ==
  {[supabase |-> TRUE, lovableKey |-> TRUE],
   [supabase |-> FALSE, lovableKey |-> TRUE],
   [supabase |-> TRUE, lovableKey |-> FALSE]}

Body(success, error, retryable, itinerary, message) ==
  [t |-> "object", success |-> success, error |-> error,
   retryable |-> retryable, itinerary |-> itinerary, message |-> message]
NullBody ==
  [t |-> "null", success |-> Undefined, error |-> Undefined,
   retryable |-> Undefined, itinerary |-> Undefined, message |-> Undefined]
ErrorBody(message) == Body(Undefined, Str(message), Undefined, Undefined, Undefined)

Response(status, body) == [status |-> status, body |-> body]
NoResponse == Response(0, NullBody)

\* The catch of lines 539-548
serverError(message) ==
  Response(500, Body(JsBool(FALSE), Str(message), Undefined, Undefined, Undefined))

\* The response of lines 527-537
finalResponse(itinerary) ==
  LET success == ~Truthy(itinerary.error)
  IN Response(200,
       IF success
       THEN Body(JsBool(TRUE), Undefined, Undefined, itinerary,
                 Str(<<"Trip planned successfully with AI!">>))
       ELSE Body(JsBool(FALSE), itinerary.error, JsBool(TRUE), itinerary, Undefined))

VARIABLES
  env,         \* the secrets configured for the function
  trips,       \* the rows of public.trips
  request,     \* request[i]: the request invocation i serves
  pc,          \* pc[i]: the await at which invocation i stands
  user,        \* user[i]: user.id once getUser has accepted the credential
  input,       \* input[i]: validatedInput
  rawContent,  \* rawContent[i]
  itinerary,   \* itinerary[i]
  calls,       \* calls[i]: the collaborator calls made, with their results
  response,    \* response[i]: the Response returned
  trace,       \* trace[i]: the steps invocation i has taken, in order
  fnArg,       \* the argument of the function evaluated on its own
  fnResult     \* what that function returned

vars ==
  <<env, trips, request, pc, user, input, rawContent, itinerary, calls,
    response, trace, fnArg, fnResult>>

Invocations == DOMAIN pc

\* A collaborator call: whom it goes to, what it carries, what came back
Pending == [state |-> "pending"]
Call(to, arg) == [to |-> to, arg |-> arg, result |-> Pending]
IdpResult(u) == [state |-> "returned", user |-> u]
SelectResult(error, rows) == [state |-> "returned", error |-> error, rows |-> rows]
GatewayResult(http) == [state |-> "returned", http |-> http]
UpdateResult(error, count) == [state |-> "returned", error |-> error, count |-> count]

UpdateArg(tripId, userId, doc, status) ==
  [tripId |-> tripId, userId |-> userId, ai_itinerary |-> doc, status |-> status]

InitialTrips ==
  {{TripRow(TripA, "u1", "draft", JsNull)},
   {TripRow(TripA, "u1", "planned", OldDoc)}}

\* No function is being evaluated on its own
NoArgument == [t |-> "none"]

NotEvaluated == [t |-> "pending"]

InitWith(ids, requests) ==
  /\ env \in Environments
  /\ trips \in InitialTrips
  /\ request \in [ids -> requests]
  /\ pc = [i \in ids |-> "start"]
  /\ user = [i \in ids |-> "none"]
  /\ input = [i \in ids |-> Undefined]
  /\ rawContent = [i \in ids |-> JsNull]
  /\ itinerary = [i \in ids |-> Undefined]
  /\ calls = [i \in ids |-> <<>>]
  /\ response = [i \in ids |-> NoResponse]
  /\ trace = [i \in ids |-> <<>>]
  /\ fnArg = NoArgument
  /\ fnResult = NotEvaluated

Init == InitWith({1}, Requests)

\* Invocation i returns r, having taken the steps given
Respond(i, r, steps) ==
  /\ pc' = [pc EXCEPT ![i] = "done"]
  /\ response' = [response EXCEPT ![i] = r]
  /\ trace' = [trace EXCEPT ![i] = @ \o steps \o <<"respond">>]

\* Invocation i suspends at the await named next
Await(i, next, steps) ==
  /\ pc' = [pc EXCEPT ![i] = next]
  /\ trace' = [trace EXCEPT ![i] = @ \o steps]
  /\ UNCHANGED response

\* The pending call of invocation i has returned result
Returned(i, result) == [calls[i] EXCEPT ![Len(calls[i])].result = result]

\* The steps each stretch of the handler takes, in the order of its lines
stepsBeforeGetUser == <<"authenticate">>
\* The lookup issued before the body is validated
stepsAfterGetUserSwapped == <<"authorize", "validate">>
stepsAfterGetUser == <<"validate", "authorize">>
stepsAfterLookup == <<"prompt", "complete">>

(***************************************************************************)
(* The handler (index.ts 212-549), one action per await                    *)
(***************************************************************************)
\* Lines 213-251: preflight, header and token checks, configuration, and
\* the call of auth.getUser
ReceiveRequest(i) ==
  /\ pc[i] = "start"
  /\ LET req == request[i] IN
     IF req.method = "OPTIONS"
       THEN /\ Respond(i, Response(200, NullBody), <<>>)
            /\ UNCHANGED calls
     ELSE IF ~Truthy(req.authHeader)
       THEN /\ Respond(i, Response(401, ErrorBody(<<"Unauthorized: Missing authorization header">>)), <<>>)
            /\ UNCHANGED calls
     ELSE IF Len(tokenOf(req.authHeader)) = 0
       THEN /\ Respond(i, Response(401, ErrorBody(<<"Unauthorized: Invalid token format">>)), <<>>)
            /\ UNCHANGED calls
     ELSE IF ~env.supabase
       THEN /\ Respond(i, serverError(<<"Supabase configuration missing">>), <<>>)
            /\ UNCHANGED calls
     ELSE /\ Await(i, "getUser", stepsBeforeGetUser)
          /\ calls' = [calls EXCEPT ![i] = Append(@, Call("idp", tokenOf(req.authHeader)))]
  /\ UNCHANGED <<env, trips, request, user, input, rawContent, itinerary>>
  /\ UNCHANGED <<fnArg, fnResult>>

\* A test that lets every answer of the provider through
authenticationNeverFails(u) == FALSE

\* `authError || !user` of line 252
authenticationFailed(u) == u = "none"

\* The body read and validated before the provider's answer is looked at
GetUserReturnsValidatingFirst(i) ==
  /\ pc[i] = "getUser"
  /\ \E accepted \in BOOLEAN :
       LET token == tokenOf(request[i].authHeader)
           u == IF accepted THEN TokenUser(token) ELSE "none"
           body == request[i].body
           v == validateTripInput(body)
           returned == Returned(i, IdpResult(u))
       IN
       IF body = Unparseable
         THEN /\ Respond(i, Response(400, ErrorBody(<<"Unexpected end of JSON input">>)), <<"validate">>)
              /\ calls' = [calls EXCEPT ![i] = returned]
              /\ UNCHANGED <<user, input>>
       ELSE IF ~v.ok
         THEN /\ Respond(i, Response(400, ErrorBody(v.error)), <<"validate">>)
              /\ calls' = [calls EXCEPT ![i] = returned]
              /\ UNCHANGED <<user, input>>
       ELSE IF authenticationFailed(u)
         THEN /\ Respond(i, Response(401, ErrorBody(<<"Unauthorized: Invalid or expired token">>)), <<"validate">>)
              /\ calls' = [calls EXCEPT ![i] = returned]
              /\ UNCHANGED <<user, input>>
       ELSE /\ Await(i, "lookup", stepsAfterGetUser)
            /\ calls' = [calls EXCEPT ![i] =
                           Append(returned, Call("select", v.value.tripId))]
            /\ user' = [user EXCEPT ![i] = u]
            /\ input' = [input EXCEPT ![i] = v.value]
  /\ UNCHANGED <<env, trips, request, rawContent, itinerary>>
  /\ UNCHANGED <<fnArg, fnResult>>

\* Lines 251-284: the provider's answer, the decoding and validation of
\* the body, and the call of the ownership lookup
GetUserReturns(i) ==
  /\ pc[i] = "getUser"
  /\ \E accepted \in BOOLEAN :
       LET token == tokenOf(request[i].authHeader)
           u == IF accepted THEN TokenUser(token) ELSE "none"
           body == request[i].body
           v == validateTripInput(body)
           returned == Returned(i, IdpResult(u))
       IN
       IF authenticationFailed(u)
         THEN /\ Respond(i, Response(401, ErrorBody(<<"Unauthorized: Invalid or expired token">>)), <<>>)
              /\ calls' = [calls EXCEPT ![i] = returned]
              /\ UNCHANGED <<user, input>>
       ELSE IF body = Unparseable
         THEN /\ Respond(i, Response(400, ErrorBody(<<"Unexpected end of JSON input">>)), <<"validate">>)
              /\ calls' = [calls EXCEPT ![i] = returned]
              /\ user' = [user EXCEPT ![i] = u]
              /\ UNCHANGED input
       ELSE IF ~v.ok
         THEN /\ Respond(i, Response(400, ErrorBody(v.error)), <<"validate">>)
              /\ calls' = [calls EXCEPT ![i] = returned]
              /\ user' = [user EXCEPT ![i] = u]
              /\ UNCHANGED input
       ELSE /\ Await(i, "lookup", stepsAfterGetUser)
            /\ calls' = [calls EXCEPT ![i] =
                           Append(returned, Call("select", v.value.tripId))]
            /\ user' = [user EXCEPT ![i] = u]
            /\ input' = [input EXCEPT ![i] = v.value]
  /\ UNCHANGED <<env, trips, request, rawContent, itinerary>>
  /\ UNCHANGED <<fnArg, fnResult>>

\* Lines 280-430: the lookup's answer (.single() fails unless exactly one
\* row is visible to the caller's client), the ownership test, the API
\* key, the prompt and the primary completion request
LookupReturns(i) ==
  /\ pc[i] = "lookup"
  /\ \E storeError \in BOOLEAN :
       LET rows == SelectTrip(trips, TokenUser(tokenOf(request[i].authHeader)),
                              input[i].tripId)
           found == ~storeError /\ Cardinality(rows) = 1
           trip == CHOOSE row \in rows : TRUE
           returned == Returned(i, SelectResult(storeError, rows))
       IN
       IF ~found
         THEN /\ Respond(i, Response(404, ErrorBody(<<"Trip not found">>)), <<>>)
              /\ calls' = [calls EXCEPT ![i] = returned]
       ELSE IF trip.user_id # user[i]
         THEN /\ Respond(i, Response(403, ErrorBody(<<"Unauthorized: You do not own this trip">>)), <<>>)
              /\ calls' = [calls EXCEPT ![i] = returned]
       ELSE IF ~env.lovableKey
         THEN /\ Respond(i, serverError(<<"Lovable AI API key not configured">>), <<>>)
              /\ calls' = [calls EXCEPT ![i] = returned]
       ELSE /\ Await(i, "primary", stepsAfterLookup)
            /\ calls' = [calls EXCEPT ![i] = Append(returned, Call("gateway", "primary"))]
  /\ UNCHANGED <<env, trips, request, user, input, rawContent, itinerary>>
  /\ UNCHANGED <<fnArg, fnResult>>

\* The update of lines 507-518 is issued, after the calls so far
IssueUpdate(i, sofar, doc) ==
  /\ itinerary' = [itinerary EXCEPT ![i] = doc]
  /\ calls' = [calls EXCEPT ![i] =
                 Append(sofar, Call("update",
                   UpdateArg(input[i].tripId, user[i], doc, nextStatus(doc))))]

\* Lines 424-518: the primary response, the first pass, the rate-limit
\* test, and either the repair request or the update
PrimaryReturns(i) ==
  /\ pc[i] = "primary"
  /\ \E http \in HttpOutcomes :
       LET data == callLovableAi(http)
           fp == firstPass(data.value)
           tried == IF fp.extracted THEN <<"extract">> ELSE <<>>
           returned == Returned(i, GatewayResult(http))
       IN
       IF ~data.ok
         THEN /\ Respond(i, serverError(data.error), <<>>)
              /\ calls' = [calls EXCEPT ![i] = returned]
              /\ UNCHANGED <<rawContent, itinerary>>
       ELSE IF fp.ok
         THEN /\ Await(i, "update", tried \o <<"persist">>)
              /\ rawContent' = [rawContent EXCEPT ![i] = fp.rawContent]
              /\ IssueUpdate(i, returned, fp.itinerary)
       ELSE IF isRetryableMessage(fp.error)
         THEN /\ Respond(i, Response(429, Body(JsBool(FALSE), Str(fp.error), JsBool(TRUE),
                                               Undefined, Undefined)), tried)
              /\ calls' = [calls EXCEPT ![i] = returned]
              /\ rawContent' = [rawContent EXCEPT ![i] = fp.rawContent]
              /\ UNCHANGED itinerary
       ELSE IF repairIsAttempted(fp.rawContent)
         THEN /\ Await(i, "repair", tried \o <<"repair">>)
              /\ calls' = [calls EXCEPT ![i] = Append(returned, Call("gateway", "repair"))]
              /\ rawContent' = [rawContent EXCEPT ![i] = fp.rawContent]
              /\ UNCHANGED itinerary
       ELSE /\ Await(i, "update", tried \o <<"persist">>)
            /\ rawContent' = [rawContent EXCEPT ![i] = fp.rawContent]
            /\ IssueUpdate(i, returned, placeholder(fp.rawContent))
  /\ UNCHANGED <<env, trips, request, user, input>>
  /\ UNCHANGED <<fnArg, fnResult>>

\* A repair that is sent again when the gateway fails
RepairReturnsRetrying(i) ==
  /\ pc[i] = "repair"
  /\ \E http \in HttpOutcomes :
       LET repaired == callLovableAi(http)
           reached == repaired.ok /\ Truthy(repaired.value.content)
                      /\ repaired.value.content.t = "string"
       IN
       IF ~repaired.ok
       THEN /\ Await(i, "repair", <<>>)
            /\ calls' = [calls EXCEPT ![i] =
                           Append(Returned(i, GatewayResult(http)), Call("gateway", "repair"))]
            /\ UNCHANGED itinerary
       ELSE /\ Await(i, "update",
                     IF reached THEN <<"extract again", "persist">> ELSE <<"persist">>)
            /\ IssueUpdate(i, Returned(i, GatewayResult(http)), secondPass(rawContent[i], http))
  /\ UNCHANGED <<env, trips, request, user, input, rawContent>>
  /\ UNCHANGED <<fnArg, fnResult>>

\* A repair request that is sent anew for as long as the gateway fails
RepairReturnsResending(i) ==
  /\ pc[i] = "repair"
  /\ \E http \in HttpOutcomes :
       LET repaired == callLovableAi(http)
           reached == repaired.ok /\ Truthy(repaired.value.content)
                      /\ repaired.value.content.t = "string"
           sent == calls[i][Len(calls[i])]
       IN
       IF ~repaired.ok
       THEN /\ Await(i, "repair", <<>>)
            /\ calls' = [calls EXCEPT ![i][Len(calls[i])] =
                           Call("gateway", IF sent.arg = "repair" THEN "repair again"
                                           ELSE "repair")]
            /\ UNCHANGED itinerary
       ELSE /\ Await(i, "update",
                     IF reached THEN <<"extract again", "persist">> ELSE <<"persist">>)
            /\ IssueUpdate(i, Returned(i, GatewayResult(http)), secondPass(rawContent[i], http))
  /\ UNCHANGED <<env, trips, request, user, input, rawContent>>
  /\ UNCHANGED <<fnArg, fnResult>>

\* Lines 491-518: the repair response, the second pass and the update
RepairReturns(i) ==
  /\ pc[i] = "repair"
  /\ \E http \in HttpOutcomes :
       LET repaired == callLovableAi(http)
           reached == repaired.ok /\ Truthy(repaired.value.content)
                      /\ repaired.value.content.t = "string"
       IN
       /\ Await(i, "update",
                IF reached THEN <<"extract again", "persist">> ELSE <<"persist">>)
       /\ IssueUpdate(i, Returned(i, GatewayResult(http)), secondPass(rawContent[i], http))
  /\ UNCHANGED <<env, trips, request, user, input, rawContent>>
  /\ UNCHANGED <<fnArg, fnResult>>

\* The rows an update of (tripId, userId) changes
matching(table, arg) ==
  {row \in table : row.id = arg.tripId /\ row.user_id = arg.userId}

\* Lines 511-548: the store applies the update, or reports an error, and
\* the handler answers
UpdateReturns(i) ==
  /\ pc[i] = "update"
  /\ \E updateError \in BOOLEAN :
       LET arg == calls[i][Len(calls[i])].arg IN
       IF updateError
         THEN /\ Respond(i, serverError(<<"Failed to update trip: ", "connection lost">>), <<>>)
              /\ calls' = [calls EXCEPT ![i] = Returned(i, UpdateResult(TRUE, 0))]
              /\ UNCHANGED trips
         ELSE /\ trips' = UpdateTrip(trips, arg.tripId, arg.userId,
                                     arg.ai_itinerary, arg.status)
              /\ calls' = [calls EXCEPT ![i] =
                             Returned(i, UpdateResult(FALSE, Cardinality(matching(trips, arg))))]
              /\ Respond(i, finalResponse(itinerary[i]), <<>>)
  /\ UNCHANGED <<env, request, user, input, rawContent, itinerary>>
  /\ UNCHANGED <<fnArg, fnResult>>

\* The trip page's delete (.from('trips').delete().eq('id', trip.id)) by a
\* signed-in user, under the delete policy
DeleteTrip(u, id) ==
  /\ \E row \in trips : row.id = id /\ CanDelete(u, row)
  /\ trips' = {row \in trips : ~(row.id = id /\ CanDelete(u, row))}
  /\ UNCHANGED <<env, request, pc, user, input, rawContent, itinerary, calls,
                 response, trace>>
  /\ UNCHANGED <<fnArg, fnResult>>

Next ==
  \/ \E i \in Invocations : ReceiveRequest(i)
  \/ \E i \in Invocations : GetUserReturns(i)
  \/ \E i \in Invocations : LookupReturns(i)
  \/ \E i \in Invocations : PrimaryReturns(i)
  \/ \E i \in Invocations : RepairReturns(i)
  \/ \E i \in Invocations : UpdateReturns(i)
  \/ \E u \in Users, id \in {TripA, TripB} : DeleteTrip(u, id)

Spec == Init /\ [][Next]_vars

(***************************************************************************)
(* Two invocations at once for a trip just created, which nothing but the  *)
(* handler changes.                                                        *)
(***************************************************************************)
TwoInvocations == {1, 2}

NewTrip == TripRow(TripA, "u1", "draft", JsNull)

OwnerRequests ==
  {Request("POST", Str(<<BearerPrefix, "jwt-u1">>), BodyFor(TripA))}

ConcurrentWith(requests) ==
  /\ env = [supabase |-> TRUE, lovableKey |-> TRUE]
  /\ trips = {NewTrip}
  /\ request \in [TwoInvocations -> requests]
  /\ pc = [i \in TwoInvocations |-> "start"]
  /\ user = [i \in TwoInvocations |-> "none"]
  /\ input = [i \in TwoInvocations |-> Undefined]
  /\ rawContent = [i \in TwoInvocations |-> JsNull]
  /\ itinerary = [i \in TwoInvocations |-> Undefined]
  /\ calls = [i \in TwoInvocations |-> <<>>]
  /\ response = [i \in TwoInvocations |-> NoResponse]
  /\ trace = [i \in TwoInvocations |-> <<>>]
  /\ fnArg = NoArgument
  /\ fnResult = NotEvaluated

InitConcurrent == ConcurrentWith(OwnerRequests)

NextConcurrent ==
  \/ \E i \in Invocations : ReceiveRequest(i)
  \/ \E i \in Invocations : GetUserReturns(i)
  \/ \E i \in Invocations : LookupReturns(i)
  \/ \E i \in Invocations : PrimaryReturns(i)
  \/ \E i \in Invocations : RepairReturns(i)
  \/ \E i \in Invocations : UpdateReturns(i)

SpecConcurrent == InitConcurrent /\ [][NextConcurrent]_vars

\* Two requests of any kind side by side, to compare their responses
InitPair == ConcurrentWith(Requests)

SpecPair == InitPair /\ [][NextConcurrent]_vars

\* Every call the handler awaits returns or fails, and the runtime hands
\* each request to the handler: no step of an invocation stays enabled for
\* ever without being taken
OneInvocation == {1}

CollaboratorsAnswer ==
  \A i \in OneInvocation :
    /\ WF_vars(ReceiveRequest(i))
    /\ WF_vars(GetUserReturns(i))
    /\ WF_vars(LookupReturns(i))
    /\ WF_vars(PrimaryReturns(i))
    /\ WF_vars(RepairReturns(i))
    /\ WF_vars(UpdateReturns(i))

SpecLive == InitWith(OneInvocation, Requests) /\ [][Next]_vars /\ CollaboratorsAnswer

(***************************************************************************)
(* The handler beside a change of owner.  No policy lets a signed-in user  *)
(* give a trip away (the update policy checks the new row as it checks the *)
(* old one); user_id is a column like any other to a role that bypasses    *)
(* row-level security.                                                     *)
(***************************************************************************)
MaxUpdates == 2

ReassignTrip(id, u) ==
  /\ \E row \in trips : row.id = id /\ row.user_id # u /\ row.updated_at < MaxUpdates
  /\ trips' = {IF row.id = id
               THEN update_updated_at_column([row EXCEPT !.user_id = u])
               ELSE row : row \in trips}
  /\ UNCHANGED <<env, request, pc, user, input, rawContent, itinerary, calls,
                 response, trace>>
  /\ UNCHANGED <<fnArg, fnResult>>

\* A new trip of one user beside a trip of another that holds a document,
\* in each status a trip with a document can have
StoredTrips ==
  {{TripRow(TripA, "u1", "draft", JsNull), TripRow(TripB, "u2", status, OldDoc)} :
     status \in TripStatuses \ {"draft"}}

InitStore ==
  /\ env = [supabase |-> TRUE, lovableKey |-> TRUE]
  /\ trips \in StoredTrips
  /\ request \in [{1} -> Requests]
  /\ pc = [i \in {1} |-> "start"]
  /\ user = [i \in {1} |-> "none"]
  /\ input = [i \in {1} |-> Undefined]
  /\ rawContent = [i \in {1} |-> JsNull]
  /\ itinerary = [i \in {1} |-> Undefined]
  /\ calls = [i \in {1} |-> <<>>]
  /\ response = [i \in {1} |-> NoResponse]
  /\ trace = [i \in {1} |-> <<>>]
  /\ fnArg = NoArgument
  /\ fnResult = NotEvaluated

NextStore ==
  \/ Next
  \/ \E u \in Users, id \in {TripA, TripB} : ReassignTrip(id, u)

SpecStore == InitStore /\ [][NextStore]_vars

(***************************************************************************)
(* A function evaluated on its own: no invocation is served, the argument  *)
(* is drawn from a set and the function is applied to it once.             *)
(***************************************************************************)
Standalone(arguments) ==
  /\ env = [supabase |-> TRUE, lovableKey |-> TRUE]
  /\ trips = {}
  /\ request = <<>>
  /\ pc = <<>>
  /\ user = <<>>
  /\ input = <<>>
  /\ rawContent = <<>>
  /\ itinerary = <<>>
  /\ calls = <<>>
  /\ response = <<>>
  /\ trace = <<>>
  /\ fnArg \in arguments
  /\ fnResult = NotEvaluated

Evaluated == fnResult.t = "returned"
Result == fnResult.v

Evaluate(value) ==
  /\ fnResult = NotEvaluated
  /\ fnResult' = [t |-> "returned", v |-> value]
  /\ UNCHANGED <<env, trips, request, pc, user, input, rawContent, itinerary,
                 calls, response, trace, fnArg>>

(***************************************************************************)
(* validateTripInput on its own                                            *)
(***************************************************************************)
Repeat(c, n) == [k \in 1..n |-> c]

Sept30 == <<"2", "0", "2", "4", "-", "0", "9", "-", "3", "0">>
NotADate == <<"0", "6", "/", "0", "1">>
Food == <<"F", "o", "o", "d">>

\* Bodies in which every rule is kept or broken independently of the others
OrderBodies ==
  {Obj(id, dest, s, e, t, b, p) :
     id \in {Str(TripA), Undefined},
     dest \in {Str(Paris), Str(<<" ">>), Str(Repeat("a", MaxDestination + 1))},
     s \in {Str(June1), Str(NotADate)},
     e \in {Str(June3), Undefined, Str(<<"2", "0", "2", "4", "-", "0", "5", "-", "3", "1">>),
            Str(Sept30)},
     t \in {Undefined, Num(2), Num(0), NumHalf(2)},
     b \in {Undefined, JsNull, Num(50000), Num(MaxBudget + 1)},
     p \in {Undefined, Arr(<<Str(Food)>>), Str(Food),
            Arr(Repeat(Str(Food), MaxPreferences + 1))}}
  \cup {JsNull, Undefined, Str(Paris), Num(7), Arr(<<>>)}

\* The calendar
IsLeapYear(y) == y % 4 = 0 /\ (y % 100 # 0 \/ y % 400 = 0)
DaysInMonth(y, m) ==
  IF m = 2 THEN (IF IsLeapYear(y) THEN 29 ELSE 28)
  ELSE IF m \in {4, 6, 9, 11} THEN 30 ELSE 31

Day(y, m, d) == [y |-> y, m |-> m, d |-> d]

FirstOfNextMonth(date) ==
  IF date.m < 12 THEN Day(date.y, date.m + 1, 1) ELSE Day(date.y + 1, 1, 1)

\* The day n days after a day, walking the calendar month by month
RECURSIVE DaysLater(_, _)
DaysLater(date, n) ==
  LET left == DaysInMonth(date.y, date.m) - date.d IN
  IF n <= left THEN Day(date.y, date.m, date.d + n)
  ELSE DaysLater(FirstOfNextMonth(date), n - left - 1)

TwoDigits(n) == <<DigitChars[(n \div 10) + 1], DigitChars[(n % 10) + 1]>>

\* The YYYY-MM-DD text of a day
DateText(date) ==
  TwoDigits(date.y \div 100) \o TwoDigits(date.y % 100) \o <<"-">>
    \o TwoDigits(date.m) \o <<"-">> \o TwoDigits(date.d)

\* The longest distance between the two dates of a body
MaxSpan == 92

FirstDays == {Day(2024, 6, 1), Day(2024, 1, 15), Day(2023, 11, 20), Day(2100, 2, 1)}

DatesBody(startDate, endDate) ==
  Obj(Str(TripA), Str(Paris), Str(startDate), Str(endDate), Undefined,
      Undefined, Undefined)

\* Bodies whose dates are a first day and the day n days later, either way
DateBodies ==
  {DatesBody(DateText(first), DateText(DaysLater(first, n))) :
     first \in FirstDays, n \in 0..MaxSpan}
  \cup {DatesBody(DateText(DaysLater(first, n)), DateText(first)) :
          first \in FirstDays, n \in 1..MaxSpan}

\* The longest destination and preference built character by character
MaxChars == 3

SampleChars == {"a", " ", "<", ">", "{", "}"}

Texts(n) == UNION {[1..k -> SampleChars] : k \in 0..n}

DestinationBodies ==
  {Obj(Str(TripA), Str(d), Str(June1), Str(June3), Undefined, Undefined, Undefined) :
     d \in Texts(MaxChars)
           \cup {Repeat("a", MaxDestination),
                 <<"<">> \o Repeat("a", MaxDestination - 1),
                 Repeat("a", MaxDestination - 1) \o <<"{", ">">>}}

NumberBodies ==
  {Obj(Str(TripA), Str(Paris), Str(June1), Str(June3), t, b, Undefined) :
     t \in {Undefined, JsNull, Num(-1), Num(0), Num(MinTravelers), NumHalf(MinTravelers),
            Num(MaxTravelers), NumHalf(MaxTravelers), Num(MaxTravelers + 1),
            Str(<<"2">>), Str(<<>>), Str(<<"x">>), JsBool(TRUE), Arr(<<>>),
            Arr(<<Num(3)>>)},
     b \in {Undefined, JsNull, Num(-1), NumHalf(-1), Num(0), NumHalf(0),
            Num(MaxBudget), NumHalf(MaxBudget), Num(MaxBudget + 1),
            Str(<<"5", "0", "0">>), Str(<<"x">>), JsBool(FALSE), Arr(<<>>)}}

\* A preference longer than the limit, with a stripped character in front
LongPreference == <<"<">> \o Repeat("a", MaxPreferenceLen)

PreferenceEntries ==
  {Str(<<"a">>), Str(<<"b", "}">>), Str(<<"<", ">">>), Str(<<>>), Str(LongPreference),
   Num(7), JsNull}

PreferenceLists ==
  UNION {[1..k -> PreferenceEntries] : k \in 0..MaxChars}
  \cup {Repeat(Num(7), MaxPreferences) \o <<Str(<<"a">>)>>,
        Repeat(Num(7), MaxPreferences + 1),
        Repeat(Str(<<"a">>), MaxPreferences)}

PreferenceBodies ==
  {Obj(Str(TripA), Str(Paris), Str(June1), Str(June3), Undefined, Undefined, p) :
     p \in {Arr(list) : list \in PreferenceLists}
           \cup {Undefined, JsNull, Str(Food), Num(3), JsBool(TRUE)}}

ValidatorArguments ==
  OrderBodies \cup DateBodies \cup DestinationBodies \cup NumberBodies
    \cup PreferenceBodies

InitValidator == Standalone(ValidatorArguments)

ApplyValidateTripInput == Evaluate(validateTripInput(fnArg))

NextValidator == ApplyValidateTripInput

SpecValidator == InitValidator /\ [][NextValidator]_vars

(***************************************************************************)
(* sanitizeString on its own                                               *)
(***************************************************************************)
SanitizerArguments ==
  {[str |-> Str(s), maxLength |-> n] : s \in Texts(MaxChars), n \in 0..(MaxChars + 1)}
  \cup {[str |-> x, maxLength |-> MaxChars] : x \in {Undefined, JsNull, Num(7)}}

InitSanitizer == Standalone(SanitizerArguments)

ApplySanitizeString == Evaluate(sanitizeString(fnArg.str, fnArg.maxLength))

NextSanitizer == ApplySanitizeString

SpecSanitizer == InitSanitizer /\ [][NextSanitizer]_vars

(***************************************************************************)
(* normalizeJsonText on its own, on texts {"k": value tail                 *)
(***************************************************************************)
Key == <<"{", Quote, "k", Quote>>

Colons == {<<":">>, <<":", " ">>}

Multiplications ==
  {a \o star \o b :
     a \in {<<"2">>, <<"1", "2">>},
     star \in {<<"*">>, <<" ", "*", " ">>},
     b \in {<<"3">>, <<"1", "0">>}}

Notes == {<<"(", "x", ")">>, <<" ", "(", "a", " ", "b", ")">>, <<"(", ")">>}

Parentheticals == {n \o note : n \in {<<"2", "0">>, <<"7">>}, note \in Notes}

\* String literals whose characters look like what the patterns match
StringValues ==
  {<<Quote, "a", Quote>>,
   <<Quote, "a", ":", " ", "2", " ", "*", " ", "3", ",", Quote>>,
   <<Quote, "a", ",", " ", "}", Quote>>,
   <<Quote, "n", ":", " ", "5", " ", "(", "x", ")", ",", "b", Quote>>,
   <<Quote, "2", " ", "*", " ", "3", Quote>>}

OtherValues ==
  {<<"7">>, <<"1", ".", "5">>, <<"[", "1", ",", " ", "2", "]">>,
   <<"[", "1", ",", "]">>, <<"{", "}">>}

Gaps == {<<>>, <<" ">>, <<"\n">>}

\* Tails that start with a separator, and tails that do not
SeparatorTails ==
  {<<"}">>, <<",", Quote, "z", Quote, ":", "1", "}">>, <<"]", "}">>,
   <<",", "}">>, <<",", " ", "}">>}

OtherTails ==
  {<<>>, <<"x", "}">>, <<"+", "1", "}">>, <<"*", "4", "}">>, <<"(", "y", ")", "}">>}

JsonText(colon, value, gap, tail) == Key \o colon \o value \o gap \o tail

NormalizerArguments ==
  {JsonText(colon, value, gap, tail) :
     colon \in Colons,
     value \in Multiplications \cup Parentheticals \cup StringValues \cup OtherValues,
     gap \in Gaps,
     tail \in SeparatorTails \cup OtherTails}

InitNormalizer == Standalone(NormalizerArguments)

ApplyNormalizeJsonText == Evaluate(normalizeJsonText(fnArg))

NextNormalizer == ApplyNormalizeJsonText

SpecNormalizer == InitNormalizer /\ [][NextNormalizer]_vars

(***************************************************************************)
(* extractJsonCandidate on its own, on texts made of commentary, an        *)
(* opening fence, a body, a closing fence and more commentary              *)
(***************************************************************************)
Fence == <<Backtick, Backtick, Backtick>>

Leads == {<<>>, <<"H", "i", ":", " ">>, <<" ", "\n">>, <<"a", "}", " ">>}

OpeningFences ==
  {<<>>, Fence \o <<"j", "s", "o", "n", "\n">>, Fence \o <<"J", "S", "O", "N", " ">>,
   Fence \o <<"\n">>}

Bodies ==
  {<<"{", Quote, "a", Quote, ":", "1", "}">>,
   <<"{", Quote, "a", Quote, ":", "{", Quote, "b", Quote, ":", "2", "}", "}">>,
   <<"{", "}">>,
   <<"{", "1", "}", " ", "o", "r", " ", "{", "2", "}">>,
   <<"}", "{">>, <<"a", "b", "c">>, <<"{">>, <<"}">>, <<>>}

\* What stands before a closing fence, and the white space after it
ClosingFences ==
  {[before |-> <<>>, fence |-> <<>>],
   [before |-> <<"\n">>, fence |-> Fence],
   [before |-> <<>>, fence |-> Fence \o <<" ", " ">>]}

Trails == {<<>>, <<" ", "d", "o", "n", "e">>, <<"\n">>, <<"x", "}">>}

ExtractorArguments ==
  [lead : Leads, opening : OpeningFences, body : Bodies, closing : ClosingFences,
   trail : Trails]

FencedText(parts) ==
  parts.lead \o parts.opening \o parts.body \o parts.closing.before
    \o parts.closing.fence \o parts.trail

InitExtractor == Standalone(ExtractorArguments)

ApplyExtractJsonCandidate == Evaluate(extractJsonCandidateFrom(FencedText(fnArg)))

NextExtractor == ApplyExtractJsonCandidate

SpecExtractor == InitExtractor /\ [][NextExtractor]_vars

(***************************************************************************)
(* The prompt on its own, for the TripRequests validateTripInput returns   *)
(***************************************************************************)
PromptArguments ==
  {validateTripInput(body).value :
     body \in {b \in NumberBodies \cup PreferenceBodies \cup DestinationBodies :
                 validateTripInput(b).ok}}

InitPrompt == Standalone(PromptArguments)

ApplyBuildPrompt == Evaluate(buildPrompt(fnArg))

NextPrompt == ApplyBuildPrompt

SpecPrompt == InitPrompt /\ [][NextPrompt]_vars

(***************************************************************************)
(* Vocabulary of the properties                                            *)
(***************************************************************************)
Done(i) == pc[i] = "done"
HasReturned(c) == c.result.state = "returned"
IsPost(i) == request[i].method # "OPTIONS"

CallsTo(i, to) == SelectSeq(calls[i], LAMBDA c : c.to = to)
GatewayCalls(i) == CallsTo(i, "gateway")
UpdateCalls(i) == CallsTo(i, "update")

\* The gateway exchange failed: transport, status, or a body that is not JSON
GatewayFailed(http) == http.kind = "transport" \/ ~http.ok \/ http.body = NotJson

\* The k-th gateway call of i has returned, and failed / delivered a body
CallFailed(i, k) ==
  /\ Len(GatewayCalls(i)) >= k
  /\ HasReturned(GatewayCalls(i)[k])
  /\ GatewayFailed(GatewayCalls(i)[k].result.http)
CallDelivered(i, k) ==
  /\ Len(GatewayCalls(i)) >= k
  /\ HasReturned(GatewayCalls(i)[k])
  /\ ~GatewayFailed(GatewayCalls(i)[k].result.http)
DataOf(i, k) == GatewayCalls(i)[k].result.http.body

IsStringContent(c) == c.t = "string" /\ Len(c.v) > 0

\* The k-th response carries string content, which does / does not parse
ContentParses(i, k) ==
  /\ CallDelivered(i, k)
  /\ IsStringContent(DataOf(i, k).content)
  /\ DataOf(i, k).content.object /\ DataOf(i, k).content.json.ok
ContentFailsToParse(i, k) ==
  /\ CallDelivered(i, k)
  /\ IsStringContent(DataOf(i, k).content)
  /\ ~(DataOf(i, k).content.object /\ DataOf(i, k).content.json.ok)

UpdateIssued(i) == Len(UpdateCalls(i)) > 0
UpdateOf(i) == UpdateCalls(i)[1]
UpdateFailed(i) ==
  UpdateIssued(i) /\ HasReturned(UpdateOf(i)) /\ UpdateOf(i).result.error
UpdateSucceeded(i) ==
  UpdateIssued(i) /\ HasReturned(UpdateOf(i)) /\ ~UpdateOf(i).result.error

IsPlaceholderOf(doc, raw) ==
  /\ doc.t = "object"
  /\ doc.error = Str(InvalidFormatMsg)
  /\ doc.rawContent = raw

RetryableFailureBody(body) ==
  /\ body.success = JsBool(FALSE)
  /\ body.retryable = JsBool(TRUE)
  /\ body.error.t = "string"

(***************************************************************************)
(* C1.  An authenticated caller who asks for an existing trip of another   *)
(* user is answered 403 (not 404 or anything else), the lookup going       *)
(* through the caller's own client under the SELECT policy.                *)
(* Stated on the step in which the lookup returns.                         *)
(***************************************************************************)
C1_NonOwnerIsForbidden ==
  [][\A i \in Invocations :
       (/\ pc[i] = "lookup"
        /\ pc'[i] # "lookup"
        /\ \E row \in trips : row.id = input[i].tripId /\ row.user_id # user[i])
       => response'[i].status = 403]_vars

(***************************************************************************)
(* C2.  A primary response whose choice error has metadata.raw decoding to *)
(* status RESOURCE_EXHAUSTED or code 429 is answered 429 with              *)
(* {success:false, retryable:true, error}, whether or not the choice error *)
(* has a message of its own.                                               *)
(***************************************************************************)
RateLimitReported(data) ==
  /\ Truthy(data.choiceError)
  /\ Truthy(data.choiceError.raw)
  /\ data.choiceError.raw.json.ok
  /\ \/ data.choiceError.raw.json.value.status = "RESOURCE_EXHAUSTED"
     \/ data.choiceError.raw.json.value.code = 429

C2_RateLimitIsAnswered429 ==
  \A i \in Invocations :
    (Done(i) /\ CallDelivered(i, 1) /\ RateLimitReported(DataOf(i, 1)))
    => /\ response[i].status = 429
       /\ RetryableFailureBody(response[i].body)

(***************************************************************************)
(* C3.  When the primary response's string content fails to parse and the  *)
(* repaired content fails to parse too, the handler does not raise: the    *)
(* update it issues carries {error, rawContent: the primary raw text} and  *)
(* status 'draft', and once the store has taken the write the answer is    *)
(* HTTP 200 with success:false and retryable:true.  A 500 arises only from *)
(* a store error on that write.                                            *)
(***************************************************************************)
BothAttemptsUnparseable(i) ==
  ContentFailsToParse(i, 1) /\ ContentFailsToParse(i, 2)

C3_BothFailPersistsPlaceholder ==
  \A i \in Invocations :
    BothAttemptsUnparseable(i)
    => /\ UpdateIssued(i)
       /\ IsPlaceholderOf(UpdateOf(i).arg.ai_itinerary, DataOf(i, 1).content)
       /\ UpdateOf(i).arg.status = "draft"
       /\ Done(i) =>
            IF UpdateFailed(i) THEN response[i].status = 500
            ELSE /\ response[i].status = 200
                 /\ RetryableFailureBody(response[i].body)
                 /\ response[i].body.itinerary = UpdateOf(i).arg.ai_itinerary

C3_Witness ==
  \E i \in Invocations :
    /\ Done(i) /\ BothAttemptsUnparseable(i) /\ UpdateSucceeded(i)
    /\ DataOf(i, 1).content # DataOf(i, 2).content
    /\ response[i].status = 200

(***************************************************************************)
(* C4.  If the final update changes no row while the store reports no      *)
(* error, the handler answers with a 500-class status and never reports    *)
(* success:true.                                                           *)
(***************************************************************************)
C4_ZeroRowsIsAFailure ==
  \A i \in Invocations :
    (Done(i) /\ UpdateSucceeded(i) /\ UpdateOf(i).result.count = 0)
    => /\ response[i].status >= 500
       /\ response[i].body.success # JsBool(TRUE)

(***************************************************************************)
(* C5.  A gateway failure (transport, non-success status, non-JSON body)   *)
(* on the primary or on the repair call surfaces as HTTP 500 and is never  *)
(* turned into a repair attempt or a persisted placeholder.                *)
(***************************************************************************)
C5_GatewayFailureIs500 ==
  \A i \in Invocations : \A k \in 1..2 :
    CallFailed(i, k)
    => /\ Len(GatewayCalls(i)) = k
       /\ ~UpdateIssued(i)
       /\ Done(i) /\ response[i].status = 500

\* C5 as amended: a gateway failure on the primary call surfaces as HTTP
\* 500 with no repair request and no write; a gateway failure on the
\* repair call is caught, the placeholder with the primary raw content is
\* written with status 'draft', and the answer is that of the placeholder
\* path (200, success:false, retryable:true; 500 only if the write fails).
C5_PrimaryFailureIs500_RepairFailureIsPlaceholder ==
  \A i \in Invocations :
    /\ CallFailed(i, 1)
       => /\ Len(GatewayCalls(i)) = 1
          /\ ~UpdateIssued(i)
          /\ Done(i) /\ response[i].status = 500
          /\ response[i].body.success = JsBool(FALSE)
    /\ CallFailed(i, 2)
       => /\ UpdateIssued(i)
          /\ IsPlaceholderOf(UpdateOf(i).arg.ai_itinerary, rawContent[i])
          /\ UpdateOf(i).arg.status = "draft"
          /\ Done(i) =>
               IF UpdateFailed(i) THEN response[i].status = 500
               ELSE /\ response[i].status = 200
                    /\ RetryableFailureBody(response[i].body)

C5_Witness ==
  \E i \in Invocations :
    /\ Done(i) /\ CallFailed(i, 1)
    /\ GatewayCalls(i)[1].result.http.kind = "response"
    /\ response[i].status = 500

(***************************************************************************)
(* C6.  The status written is 'planned' exactly when the stored document   *)
(* is the result of a successful parse (primary or repaired output) and    *)
(* 'draft' exactly when it is the placeholder built after both attempts    *)
(* failed; a successfully parsed document is stored as 'planned' and       *)
(* reported success:true whatever fields it contains.                      *)
(***************************************************************************)
StoredFromParse(i) ==
  \/ ContentParses(i, 1)
  \/ Len(GatewayCalls(i)) = 2 /\ ContentParses(i, 2)

C6_PlannedIffParsed ==
  \A i \in Invocations :
    UpdateIssued(i)
    => /\ UpdateOf(i).arg.status = "planned" <=> StoredFromParse(i)
       /\ UpdateOf(i).arg.status = "draft" <=> ~StoredFromParse(i)
       /\ (Done(i) /\ UpdateSucceeded(i) /\ StoredFromParse(i))
            => response[i].body.success = JsBool(TRUE)

(***************************************************************************)
(* C7.  The steps run strictly in the order validate, authorize, build     *)
(* prompt, complete, extract, (repair), persist, respond: validation comes *)
(* first, the credential is not checked before the body is validated, and  *)
(* no step starts before the previous one has finished.                    *)
(***************************************************************************)
\* Position of a step in the order the claim gives; checking the credential
\* and looking up the owner both belong to its "authorize"
ClaimedRank(step) ==
  CASE step = "validate" -> 1
    [] step \in {"authenticate", "authorize"} -> 2
    [] step = "prompt" -> 3
    [] step = "complete" -> 4
    [] step \in {"extract", "extract again"} -> 5
    [] step = "repair" -> 6
    [] step = "persist" -> 7
    [] step = "respond" -> 8

StepRank(step) ==
  CASE step = "authenticate" -> 1
    [] step = "validate" -> 2
    [] step = "authorize" -> 3
    [] step = "prompt" -> 4
    [] step = "complete" -> 5
    [] step = "extract" -> 6
    [] step = "repair" -> 7
    [] step = "extract again" -> 8
    [] step = "persist" -> 9
    [] step = "respond" -> 10

CredentialRejected(i) ==
  /\ Len(calls[i]) >= 1
  /\ calls[i][1].to = "idp"
  /\ HasReturned(calls[i][1])
  /\ calls[i][1].result.user = "none"

Unauthenticated(i) ==
  \/ ~Truthy(request[i].authHeader)
  \/ tokenOf(request[i].authHeader) = <<>>
  \/ CredentialRejected(i)

C8_LookupOnlyAfterAuthentication ==
  \A i \in Invocations :
    /\ \A k \in 1..Len(calls[i]) :
         calls[i][k].to = "select"
         => /\ k = 2
            /\ calls[i][1].to = "idp"
            /\ HasReturned(calls[i][1])
            /\ calls[i][1].result.user \in Users
            /\ user[i] = calls[i][1].result.user
    /\ (IsPost(i) /\ Done(i) /\ Unauthenticated(i))
         => /\ response[i].status = 401
            /\ CallsTo(i, "select") = <<>>

C8_Witness ==
  \E i \in Invocations :
    /\ Done(i) /\ CredentialRejected(i) /\ response[i].status = 401
    /\ request[i].body = BodyFor(TripA)

(***************************************************************************)
(* C9.  An invocation sends at most two requests to the gateway, the       *)
(* primary completion and at most one repair, and the repair is never sent *)
(* before the primary response has been received.                          *)
(***************************************************************************)
C9_AtMostTwoGatewayRequests ==
  \A i \in Invocations :
    LET g == GatewayCalls(i) IN
    /\ Len(g) <= 2
    /\ Len(g) >= 1 => g[1].arg = "primary"
    /\ Len(g) = 2 => g[2].arg = "repair" /\ HasReturned(g[1])

C9_Witness ==
  \E i \in Invocations :
    /\ Done(i) /\ Len(GatewayCalls(i)) = 2 /\ CallFailed(i, 2)

(***************************************************************************)
(* C10.  A repair request is sent only when the primary completion         *)
(* returned string content that failed extraction, normalization or        *)
(* parsing; every other failure class answers without a repair request.    *)
(***************************************************************************)
C10_RepairOnlyForUnparseableText ==
  \A i \in Invocations :
    Len(GatewayCalls(i)) >= 2 => ContentFailsToParse(i, 1)

(***************************************************************************)
(* C11.  The handler answers 429 with retryable:true only when a rate-     *)
(* limit indication (status RESOURCE_EXHAUSTED or code 429 in the choice   *)
(* error's metadata) was detected in the completion response: no other     *)
(* embedded gateway error (a top-level error, a choice error with any or   *)
(* no message) and no parse failure of the model's content yields 429.     *)
(***************************************************************************)
C11_Only429OnRateLimit ==
  \A i \in Invocations :
    (Done(i) /\ response[i].status = 429)
    => /\ CallDelivered(i, 1)
       /\ RateLimitReported(DataOf(i, 1))

(***************************************************************************)
(* C12.  Every failure response with status 400, 401, 403, 404 or 500 has  *)
(* a JSON body that contains both success:false and an error string.       *)
(***************************************************************************)
FailureStatuses == {400, 401, 403, 404, 500}

C12_FailureBodyHasSuccessFalse ==
  \A i \in Invocations :
    (Done(i) /\ response[i].status \in FailureStatuses)
    => /\ response[i].body.success = JsBool(FALSE)
       /\ response[i].body.error.t = "string"

(***************************************************************************)
(* C13.  validateTripInput checks its rules in the order body-is-object,   *)
(* tripId, destination, startDate, endDate, end-not-before-start, span at  *)
(* most 90 days, travelers, budget, preferences: for every body, and so    *)
(* for every body that breaks several rules, the error reported is that of *)
(* the earliest rule broken, and a body that breaks none is accepted.      *)
(***************************************************************************)
Rules == 1..10

DatesAreValid(body) ==
  /\ Truthy(Field(body, "startDate"))
  /\ isValidDateString(JsString(Field(body, "startDate")))
  /\ Truthy(Field(body, "endDate"))
  /\ isValidDateString(JsString(Field(body, "endDate")))

\* Body breaks rule k, whatever it does to the other rules
BreaksRule(k, body) ==
  CASE k = 1 -> ~Truthy(body) \/ body.t \notin {"object", "array"}
    [] k = 2 -> \/ ~Truthy(Field(body, "tripId"))
                \/ ~isValidUUID(JsString(Field(body, "tripId")))
    [] k = 3 -> LET d == Field(body, "destination") IN
                \/ d.t # "string"
                \/ Len(Trim(d.v)) = 0
                \/ Len(d.v) > MaxDestination
    [] k = 4 -> \/ ~Truthy(Field(body, "startDate"))
                \/ ~isValidDateString(JsString(Field(body, "startDate")))
    [] k = 5 -> \/ ~Truthy(Field(body, "endDate"))
                \/ ~isValidDateString(JsString(Field(body, "endDate")))
    [] k = 6 -> /\ DatesAreValid(body)
                /\ DateTime(JsString(Field(body, "endDate")))
                     < DateTime(JsString(Field(body, "startDate")))
    [] k = 7 -> /\ DatesAreValid(body)
                /\ DateTime(JsString(Field(body, "endDate")))
                     - DateTime(JsString(Field(body, "startDate")))
                     > MaxDurationDays * DayLength
    [] k = 8 -> LET t == Field(body, "travelers") IN
                /\ t.t # "undefined"
                /\ \/ ToNumber(t).nan
                   \/ ToNumber(t).frac
                   \/ ToNumber(t).v \notin MinTravelers..MaxTravelers
    [] k = 9 -> LET b == Field(body, "budget") IN
                /\ b.t \notin {"undefined", "null"}
                /\ \/ ToNumber(b).nan
                   \/ ToNumber(b).v < 0
                   \/ ToNumber(b).v > MaxBudget
                   \/ (ToNumber(b).v = MaxBudget /\ ToNumber(b).frac)
    [] k = 10 -> LET p == Field(body, "preferences") IN
                 /\ p.t # "undefined"
                 /\ (p.t # "array" \/ Len(p.v) > MaxPreferences)

RuleErrors(k) ==
  CASE k = 1 -> {Msg("Invalid request body")}
    [] k = 2 -> {Msg("Invalid or missing tripId")}
    [] k = 3 -> {Msg("Destination is required"),
                 Msg("Destination must be less than 200 characters")}
    [] k = 4 -> {Msg("Invalid or missing startDate (format: YYYY-MM-DD)")}
    [] k = 5 -> {Msg("Invalid or missing endDate (format: YYYY-MM-DD)")}
    [] k = 6 -> {Msg("End date must be after start date")}
    [] k = 7 -> {Msg("Trip duration cannot exceed 90 days")}
    [] k = 8 -> {Msg("Travelers must be an integer between 1 and 20")}
    [] k = 9 -> {Msg("Budget must be a positive number")}
    [] k = 10 -> {Msg("Preferences must be an array"),
                  Msg("Maximum 15 preferences allowed")}

RulesBroken(body) == {k \in Rules : BreaksRule(k, body)}

Earliest(rules) == CHOOSE k \in rules : \A other \in rules : k <= other

C13_EarliestBrokenRuleIsReported ==
  Evaluated
  => IF RulesBroken(fnArg) = {} THEN Result.ok
     ELSE /\ ~Result.ok
          /\ Result.error \in RuleErrors(Earliest(RulesBroken(fnArg)))

\* A body that breaks the travelers, budget and preferences rules at once
C13_Witness ==
  /\ Evaluated
  /\ RulesBroken(fnArg) = {8, 9, 10}
  /\ Result.error \in RuleErrors(8)

(***************************************************************************)
(* C14.  For every pair of valid YYYY-MM-DD dates validation fails when    *)
(* endDate is before startDate and when the dates are more than 90 days    *)
(* apart, and passes the date rules for every distance from 0 to 90 days   *)
(* (90 passes, 91 fails); the duration written into the prompt is that     *)
(* same number of days, 2 for 2024-06-01..2024-06-03 and 0 for one day.    *)
(***************************************************************************)
C14_DateRules ==
  (Evaluated /\ fnArg \in DateBodies) =>
  \A first \in FirstDays, n \in 0..MaxSpan :
    LET a == DateText(first)
        b == DateText(DaysLater(first, n))
    IN
    /\ (Evaluated /\ fnArg = DatesBody(a, b))
       => IF n <= 90
          THEN Result.ok /\ durationDays(Result.value) = n
          ELSE Result = Reject("Trip duration cannot exceed 90 days")
    /\ (Evaluated /\ fnArg = DatesBody(b, a) /\ n > 0)
       => Result = Reject("End date must be after start date")

C14_JuneFirstToThird ==
  (Evaluated /\ fnArg = DatesBody(June1, June3))
  => Result.ok /\ durationDays(Result.value) = 2

C14_DateBoundaries == C14_DateRules /\ C14_JuneFirstToThird

\* 2024-01-15 to 2024-04-14, ninety days across the leap day
C14_Witness ==
  /\ Evaluated
  /\ fnArg = DatesBody(DateText(Day(2024, 1, 15)), DateText(Day(2024, 4, 14)))
  /\ Result.ok
  /\ durationDays(Result.value) = 90

(***************************************************************************)
(* C15.  For every body validateTripInput accepts, validateTripInput       *)
(* applied to the TripRequest it returned succeeds and returns an equal    *)
(* structure, also when the destination of the body has '<', '>', '{',     *)
(* '}' or blanks around it.                                                *)
(***************************************************************************)
\* A returned TripRequest, as the body of a request
AsBody(tripRequest) ==
  Obj(Str(tripRequest.tripId), Str(tripRequest.destination),
      Str(tripRequest.startDate), Str(tripRequest.endDate),
      tripRequest.travelers, tripRequest.budget,
      Arr([k \in 1..Len(tripRequest.preferences) |->
             Str(tripRequest.preferences[k])]))

C15_RevalidationIsIdentity ==
  (Evaluated /\ Result.ok)
  => validateTripInput(AsBody(Result.value)) = Result

(***************************************************************************)
(* C16.  For every string s and limit n, sanitizeString applied to         *)
(* sanitizeString(s, n) with the same n returns sanitizeString(s, n); and  *)
(* for every s no longer than n the result is s with every '<', '>', '{'   *)
(* and '}' removed and every other character kept, in order.               *)
(***************************************************************************)
RECURSIVE WithoutBrackets(_)
WithoutBrackets(s) ==
  IF Len(s) = 0 THEN <<>>
  ELSE IF s[Len(s)] \in {"<", ">", "{", "}"}
  THEN WithoutBrackets(SubSeq(s, 1, Len(s) - 1))
  ELSE WithoutBrackets(SubSeq(s, 1, Len(s) - 1)) \o <<s[Len(s)]>>

C16_SanitizeIsIdempotent ==
  (Evaluated /\ fnArg.str.t = "string")
  => /\ sanitizeString(Str(Result), fnArg.maxLength) = Result
     /\ Len(fnArg.str.v) <= fnArg.maxLength
          => Result = WithoutBrackets(fnArg.str.v)

\* Two brackets within the limit, a letter between them
C16_Witness ==
  /\ Evaluated
  /\ fnArg = [str |-> Str(<<"<", "a", "}">>), maxLength |-> 3]
  /\ Result = <<"a">>

(***************************************************************************)
(* C17.  Every TripRequest validateTripInput returns has: travelers an     *)
(* integer from 1 to 20 (1 when the body has none); budget null (when the  *)
(* body has none or null) or a number from 0 to 100000000; endDate not     *)
(* before startDate and at most 90 days after it; destination of at most   *)
(* 200 characters, none of them '<', '>', '{' or '}'.                      *)
(***************************************************************************)
TravelersInRange(n) ==
  n.t = "number" /\ ~n.nan /\ ~n.frac /\ n.v >= 1 /\ n.v <= 20

BudgetInRange(b) ==
  \/ b = JsNull
  \/ /\ b.t = "number" /\ ~b.nan
     /\ b.v >= 0
     /\ b.v < 100000000 \/ (b.v = 100000000 /\ ~b.frac)

C17_ReturnedRequestIsInRange ==
  (Evaluated /\ Result.ok) =>
    LET r == Result.value IN
    /\ TravelersInRange(r.travelers)
    /\ fnArg.travelers = Undefined => r.travelers = Num(1)
    /\ BudgetInRange(r.budget)
    /\ fnArg.budget \in {Undefined, JsNull} <=> r.budget = JsNull
    /\ DateTime(r.endDate) >= DateTime(r.startDate)
    /\ DateTime(r.endDate) - DateTime(r.startDate) <= 90 * DayLength
    /\ Len(r.destination) <= 200
    /\ \A k \in 1..Len(r.destination) :
         r.destination[k] \notin {"<", ">", "{", "}"}

\* The largest budget, and travelers given as text
C17_Witness ==
  /\ Evaluated
  /\ Result.ok
  /\ fnArg.travelers = Str(<<"2">>)
  /\ fnArg.budget = Num(MaxBudget)
  /\ Result.value.travelers = Num(2)
  /\ Result.value.budget = Num(100000000)

(***************************************************************************)
(* C18.  Preferences that are no sequence, or a sequence of more than 15   *)
(* entries (counted before any entry is dropped), are rejected; otherwise  *)
(* the returned preferences are the given ones with the entries that are   *)
(* no strings dropped, each remaining entry cut to its first 50 characters *)
(* and stripped of '<', '>', '{', '}', the entries that became empty       *)
(* dropped, and the order kept.  Stated for the bodies that keep the rules *)
(* before the preferences rule.                                            *)
(***************************************************************************)
FirstChars(s, n) == [k \in 1..(IF Len(s) < n THEN Len(s) ELSE n) |-> s[k]]

\* Entry by entry, from the front
RECURSIVE ExpectedPreferences(_)
ExpectedPreferences(entries) ==
  IF Len(entries) = 0 THEN <<>>
  ELSE LET entry == entries[1]
           rest == ExpectedPreferences(Tail(entries))
       IN IF entry.t # "string" THEN rest
          ELSE LET cut == WithoutBrackets(FirstChars(entry.v, 50))
               IN IF Len(cut) = 0 THEN rest ELSE <<cut>> \o rest

C18_PreferencesAreFiltered ==
  (Evaluated /\ RulesBroken(fnArg) \cap 1..9 = {})
  => LET p == fnArg.preferences IN
     /\ (p.t \notin {"undefined", "array"}) => ~Result.ok
     /\ (p.t = "array" /\ Len(p.v) > 15) => ~Result.ok
     /\ (p.t = "array" /\ Len(p.v) <= 15)
          => Result.ok /\ Result.value.preferences = ExpectedPreferences(p.v)

\* An entry longer than 50 with a bracket in front, a number, an entry of
\* brackets only
C18_Witness ==
  /\ Evaluated
  /\ fnArg.t = "object"
  /\ fnArg.preferences = Arr(<<Str(LongPreference), Num(7), Str(<<"<", ">">>)>>)
  /\ Result.ok
  /\ Result.value.preferences = <<Repeat("a", 49)>>

\* Sixteen entries of which one is a string
C18_WitnessCountedBeforeDropping ==
  /\ Evaluated
  /\ fnArg.t = "object"
  /\ fnArg.preferences = Arr(Repeat(Num(7), 15) \o <<Str(<<"a">>)>>)
  /\ ~Result.ok

(***************************************************************************)
(* C19.  For every well-formed JSON object text t, parsing                 *)
(* normalizeJsonText(t) yields the value that parsing t yields: no rewrite *)
(* (trailing-comma removal, multiplication folding, parenthetical          *)
(* stripping) changes a character inside a JSON string literal, such as a  *)
(* string value that contains ': 2 * 3,' or ', }'.                         *)
(***************************************************************************)
IsJsonObjectText(t) == JsonParse(t).ok /\ JsonParse(t).value.t = "object"

C19_NormalizingKeepsTheValue ==
  (Evaluated /\ IsJsonObjectText(fnArg))
  => JsonParse(Result) = JsonParse(fnArg)

(***************************************************************************)
(* C20.  normalizeJsonText rewrites ': a * b', a and b unsigned integer    *)
(* literals, directly followed after optional whitespace by ',', '}' or    *)
(* ']', into ': ' and their product, and ': n (text)' directly followed by *)
(* such a separator into ': n'; a multiplication or a parenthetical not    *)
(* directly followed by a separator is left unchanged.  What follows is    *)
(* kept, but for a line break, which is removed, and a comma before the    *)
(* closing brace, which is removed as a trailing comma.                    *)
(***************************************************************************)
GapAfter(gap) == IF gap = <<"\n">> THEN <<>> ELSE gap

TailAfter(tail) ==
  IF tail \in {<<",", "}">>, <<",", " ", "}">>} THEN <<"}">> ELSE tail

\* The text {"k": value tail is normalized to {"k": expected tail when the
\* tail starts with a separator, and keeps its value when it does not
RewrittenAs(colon, value, expected, gap) ==
  /\ \A tail \in SeparatorTails :
       (Evaluated /\ fnArg = JsonText(colon, value, gap, tail))
       => Result = Key \o <<":", " ">> \o expected \o GapAfter(gap) \o TailAfter(tail)
  /\ \A tail \in OtherTails :
       (Evaluated /\ fnArg = JsonText(colon, value, gap, tail))
       => Result = Key \o colon \o value \o GapAfter(gap) \o tail

C20_RewritesBeforeSeparatorsOnly ==
  \A colon \in Colons, gap \in Gaps :
    /\ \A a \in {2, 12}, b \in {3, 10}, star \in {<<"*">>, <<" ", "*", " ">>} :
         RewrittenAs(colon, NatToStr(a) \o star \o NatToStr(b), NatToStr(a * b), gap)
    /\ \A n \in {20, 7}, note \in Notes :
         RewrittenAs(colon, NatToStr(n) \o note, NatToStr(n), gap)

\* {"k":12 * 10 ,"z":1}
C20_Witness ==
  /\ Evaluated
  /\ fnArg = JsonText(<<":">>, <<"1", "2", " ", "*", " ", "1", "0">>, <<" ">>,
                      <<",", Quote, "z", Quote, ":", "1", "}">>)
  /\ Result = Key \o <<":", " ", "1", "2", "0", " ", ",", Quote, "z", Quote, ":", "1", "}">>

\* {"k": 20 (a b)x}
C20_WitnessLeftUnchanged ==
  /\ Evaluated
  /\ fnArg = JsonText(<<":", " ">>, <<"2", "0", " ", "(", "a", " ", "b", ")">>, <<>>,
                      <<"x", "}">>)
  /\ Result = fnArg

(***************************************************************************)
(* C21.  extractJsonCandidate, the code-fence markers and the white space  *)
(* around the text removed, returns exactly the characters from the first  *)
(* '{' to the last '}', both included, and fails with an error when the    *)
(* text has no '{', has no '}', or its last '}' comes before its first     *)
(* '{'; commentary before and after that span is discarded.                *)
(***************************************************************************)
\* The text without its fences: the fences take the white space after them
\* along, which in the texts of the model lies outside the braces
WithoutFences(parts) ==
  parts.lead \o parts.body \o parts.closing.before \o parts.trail

Positions(s, c) == {k \in 1..Len(s) : s[k] = c}
Least(positions) == CHOOSE k \in positions : \A other \in positions : k <= other
Greatest(positions) == CHOOSE k \in positions : \A other \in positions : k >= other

C21_FirstOpenToLastClose ==
  Evaluated =>
    LET flat == WithoutFences(fnArg)
        opens == Positions(flat, "{")
        closes == Positions(flat, "}")
    IN IF opens = {} \/ closes = {} \/ Greatest(closes) < Least(opens)
       THEN ~Result.ok /\ Result.error = <<"No JSON object found in AI response">>
       ELSE /\ Result.ok
            /\ Result.value = SubSeq(flat, Least(opens), Greatest(closes))

\* Commentary, a json fence, an object within an object, a closing fence
C21_Witness ==
  /\ Evaluated
  /\ fnArg.lead = <<"H", "i", ":", " ">>
  /\ fnArg.opening = Fence \o <<"j", "s", "o", "n", "\n">>
  /\ fnArg.closing.fence = Fence
  /\ fnArg.trail = <<" ", "d", "o", "n", "e">>
  /\ Result.ok
  /\ Result.value = <<"{", Quote, "a", Quote, ":", "{", Quote, "b", Quote, ":", "2", "}", "}">>

(***************************************************************************)
(* C22.  For every validated TripRequest the prompt names the travelers    *)
(* 'person' exactly when travelers = 1 and 'people' otherwise, states the  *)
(* budget amount exactly when budget is not null (budget = 0 included) and *)
(* 'flexible' exactly when budget is null, and lists the preferences       *)
(* joined by ', ', or 'General sightseeing' exactly when there are none.   *)
(***************************************************************************)
C22_PromptWording ==
  Evaluated =>
    /\ Result.noun = "person" <=> fnArg.travelers = Num(1)
    /\ Result.noun = "people" <=> fnArg.travelers # Num(1)
    /\ Result.budget = FlexibleSentence <=> fnArg.budget = JsNull
    /\ fnArg.budget # JsNull
         => Result.budget = <<"Budget: ">> \o PrimToString(fnArg.budget) \o <<".">>
    /\ Result.interests = GeneralSightseeing <=> fnArg.preferences = <<>>
    /\ fnArg.preferences # <<>>
         => Result.interests = JoinStrings(fnArg.preferences, <<",", " ">>)

(***************************************************************************)
(* C23.  The handler's write is restricted to the row whose id is the      *)
(* validated tripId and whose user_id is the authenticated caller's id: in *)
(* no step, also not where the owner of the trip has changed between the   *)
(* lookup and the write, does the handler change a trip that at the time   *)
(* of the write belongs to another user or has another id.                 *)
(***************************************************************************)
C23_WriteScopedByIdAndOwner ==
  [][\A i \in Invocations :
       pc'[i] # pc[i]
       => \A row \in trips :
            row \notin trips'
            => row.id = input[i].tripId /\ row.user_id = user[i]]_vars

\* The owner changed after the lookup: the write took place and changed
\* no row
C23_Witness ==
  \E i \in Invocations :
    /\ Done(i)
    /\ UpdateSucceeded(i)
    /\ UpdateOf(i).result.count = 0
    /\ user[i] = "u1"
    /\ input[i].tripId = TripA
    /\ \E row \in trips :
         /\ row.id = TripA /\ row.user_id = "u2"
         /\ row.status = "draft" /\ row.ai_itinerary = JsNull

(***************************************************************************)
(* C24.  A write that takes place replaces ai_itinerary as a whole and     *)
(* sets status to 'draft' or 'planned' whatever the trip's status and      *)
(* document were: after a failed regeneration of a trip that was           *)
(* 'planned', 'active' or 'completed' with a good itinerary, the trip is   *)
(* 'draft' and holds the error placeholder and nothing of the document it  *)
(* held before.                                                            *)
(***************************************************************************)
C24_WriteReplacesDocumentAndStatus ==
  [][\A i \in Invocations :
       (pc[i] = "update" /\ pc'[i] = "done" /\ response'[i].status = 200)
       => \A row \in trips :
            (row.id = input[i].tripId /\ row.user_id = user[i])
            => LET written == CHOOSE after \in trips' : after.id = row.id
               IN /\ row \notin trips'
                  /\ Cardinality(trips') = Cardinality(trips)
                  /\ written.user_id = row.user_id
                  /\ written.ai_itinerary = itinerary[i]
                  /\ written.status = IF Truthy(itinerary[i].error) THEN "draft" ELSE "planned"
                  /\ IsPlaceholderOf(itinerary[i], IF Truthy(rawContent[i]) THEN rawContent[i] ELSE JsNull)
                     => /\ written.status = "draft"
                        /\ written.ai_itinerary.t = "object"
                        /\ written.ai_itinerary # row.ai_itinerary
                        /\ written.ai_itinerary.overview = Undefined
                        /\ written.ai_itinerary = placeholder(rawContent[i])]_vars

\* The trip of u2, stored with a document in a status other than 'draft',
\* after a failed regeneration by u2
C24_Witness ==
  \E i \in Invocations :
    /\ Done(i)
    /\ UpdateSucceeded(i)
    /\ UpdateOf(i).result.count = 1
    /\ user[i] = "u2"
    /\ input[i].tripId = TripB
    /\ IsPlaceholderOf(itinerary[i], JsNull) \/ IsPlaceholderOf(itinerary[i], rawContent[i])
    /\ \E row \in trips :
         /\ row.id = TripB /\ row.user_id = "u2"
         /\ row.status = "draft" /\ row.ai_itinerary = itinerary[i]

(***************************************************************************)
(* C25.  An invocation issues at most one write to the trip, and that      *)
(* write changes only the fields ai_itinerary and status; an invocation    *)
(* that ends with 400, 401, 403, 404 or 429, or with a 500 raised before   *)
(* the update, leaves the trip record exactly as it was.                   *)
(***************************************************************************)
\* Each row is there after the step, the same but for the named fields
RowsKeepAllBut(changed(_, _)) ==
  /\ Cardinality(trips') = Cardinality(trips)
  /\ \A row \in trips : \E after \in trips' : after = changed(row, after)

ItineraryAndStatus(row, after) ==
  [row EXCEPT !.ai_itinerary = after.ai_itinerary, !.status = after.status]

ItineraryStatusAndTimestamp(row, after) ==
  [row EXCEPT !.ai_itinerary = after.ai_itinerary, !.status = after.status,
              !.updated_at = after.updated_at]

FrameOfTheHandler(changed(_, _)) ==
  \A i \in Invocations :
    pc'[i] # pc[i]
    => /\ Len(SelectSeq(calls'[i], LAMBDA c : c.to = "update")) <= 1
       /\ RowsKeepAllBut(changed)
       /\ trips' # trips
          => /\ pc[i] = "update"
             /\ response'[i].status = 200

C25_WriteChangesOnlyItineraryAndStatus ==
  [][FrameOfTheHandler(ItineraryAndStatus)]_vars

\* C25 as the store has it: the write sets ai_itinerary and status, and the
\* trigger of the table sets updated_at; nothing else of the row changes
C25_WriteChangesItineraryStatusAndTimestamp ==
  [][FrameOfTheHandler(ItineraryStatusAndTimestamp)]_vars

\* A write took place: the row holds the invocation's document and a later
\* updated_at
C25_Witness ==
  \E i \in Invocations :
    /\ Done(i)
    /\ UpdateSucceeded(i)
    /\ UpdateOf(i).result.count = 1
    /\ \E row \in trips :
         /\ row.id = input[i].tripId /\ row.user_id = user[i]
         /\ row.ai_itinerary = itinerary[i]
         /\ row.updated_at > 0

(***************************************************************************)
(* C26.  When every call to the identity provider, the store and the       *)
(* gateway returns or fails, every invocation comes to produce a response, *)
(* and produces one only: a response once given is never replaced, and     *)
(* there is no path on which the handler goes on without responding.       *)
(***************************************************************************)
C26_ExactlyOneResponse ==
  /\ \A i \in OneInvocation : <>(Done(i) /\ response[i] # NoResponse)
  /\ [][\A i \in Invocations :
          /\ response[i] # NoResponse => response'[i] = response[i]
          /\ Done(i) => pc'[i] = pc[i] /\ calls'[i] = calls[i]]_vars

\* The longest path: both gateway calls and the update, then the response
C26_Witness ==
  \E i \in Invocations :
    /\ Done(i)
    /\ Len(GatewayCalls(i)) = 2
    /\ UpdateIssued(i)
    /\ response[i] # NoResponse

(***************************************************************************)
(* C27.  For a trip created with status 'draft' and ai_itinerary null and  *)
(* changed by invocations of the handler only, however many and however    *)
(* interleaved: in every reachable state a trip that is 'planned' holds an *)
(* object without a truthy error member, and the stored pair of            *)
(* ai_itinerary and status is the pair one invocation wrote, never the     *)
(* itinerary of one with the status of another.                            *)
(***************************************************************************)
C27_StoredPairIsOneInvocationsPair ==
  \A row \in trips :
    /\ row.status = "planned"
       => row.ai_itinerary.t = "object" /\ ~Truthy(row.ai_itinerary.error)
    /\ \/ row.status = NewTrip.status /\ row.ai_itinerary = NewTrip.ai_itinerary
       \/ \E i \in Invocations :
            /\ UpdateSucceeded(i)
            /\ row.ai_itinerary = UpdateOf(i).arg.ai_itinerary
            /\ row.status = UpdateOf(i).arg.status

\* Both invocations have written, one an itinerary and the other the
\* placeholder, and the trip holds the placeholder as a draft
C27_Witness ==
  /\ \A i \in Invocations : Done(i) /\ UpdateSucceeded(i) /\ UpdateOf(i).result.count = 1
  /\ \E i, j \in Invocations :
       /\ UpdateOf(i).arg.status = "planned"
       /\ UpdateOf(j).arg.status = "draft"
       /\ \E row \in trips :
            /\ row.status = "draft"
            /\ row.ai_itinerary = UpdateOf(j).arg.ai_itinerary
            /\ row.updated_at = 2

(***************************************************************************)
(* C28.  The destination of every TripRequest that validateTripInput       *)
(* returns is non-empty and not made of whitespace only, whatever accepted *)
(* destination was given, also one made only of '<', '>', '{', '}' and     *)
(* whitespace.                                                             *)
(***************************************************************************)
C28_ReturnedDestinationIsNotBlank ==
  (Evaluated /\ Result.ok)
  => Len(Trim(Result.value.destination)) > 0

\* The same for the destinations that hold a character other than the four
\* removed ones and whitespace
C28_KeptCharacterMakesDestinationNonBlank ==
  (/\ Evaluated
   /\ Result.ok
   /\ \E k \in 1..Len(fnArg.destination.v) :
        fnArg.destination.v[k] \notin StrippedChars \cup WhiteSpace)
  => Len(Trim(Result.value.destination)) > 0

(***************************************************************************)
(* C29.  For a request that is not authenticated (no Authorization header, *)
(* an empty token, or a credential the identity provider rejects) the      *)
(* handler reads no trip, sends nothing to the gateway, writes nothing and *)
(* does not evaluate the body: the response is 401 whatever the body       *)
(* holds, and two such requests that differ in their body only get the     *)
(* same response.  The requests are those the try block of lines 218-548   *)
(* serves, the preflight of lines 214-216 being answered before it.        *)
(***************************************************************************)
Refused(i) == IsPost(i) /\ Done(i) /\ Unauthenticated(i)

C29_UnauthenticatedRequestIsRefusedUnread ==
  /\ \A i \in Invocations :
       Refused(i)
       => /\ response[i].status = 401
          /\ CallsTo(i, "select") = <<>>
          /\ GatewayCalls(i) = <<>>
          /\ UpdateCalls(i) = <<>>
          /\ input[i] = Undefined
          /\ \A k \in 1..Len(trace[i]) : trace[i][k] # "validate"
  /\ (\A i \in Invocations : Refused(i)) => trips = {NewTrip}
  /\ \A i, j \in Invocations :
       (/\ Refused(i) /\ Refused(j)
        /\ request[i].authHeader = request[j].authHeader)
       => response[i] = response[j]

\* Two requests with one credential, which the provider rejects, one with a
\* valid body and one with a body that is not JSON
C29_Witness ==
  \E i, j \in Invocations :
    /\ Refused(i) /\ Refused(j)
    /\ CredentialRejected(i) /\ CredentialRejected(j)
    /\ request[i].authHeader = request[j].authHeader
    /\ request[i].body = BodyFor(TripA)
    /\ request[j].body = Unparseable
    /\ response[i].status = 401

(***************************************************************************)
(* C30.  When the primary completion response holds no usable string       *)
(* content (a top-level error payload, a choice-level error, or a          *)
(* choices[0].message.content that is missing or not a string) and the     *)
(* error is not classified as retryable, the handler sends no repair       *)
(* request, persists the placeholder {error, rawContent: null} with status *)
(* 'draft', and responds 200 with success false and retryable true (the    *)
(* response being looked at where the store took the write).               *)
(***************************************************************************)
NoUsableContent(data) ==
  \/ Truthy(data.error)
  \/ Truthy(data.choiceError)
  \/ ~IsStringContent(data.content)

PlaceholderWithNullIsStored(i) ==
  /\ Len(GatewayCalls(i)) = 1
  /\ UpdateIssued(i)
  /\ IsPlaceholderOf(UpdateOf(i).arg.ai_itinerary, JsNull)
  /\ UpdateOf(i).arg.status = "draft"
  /\ UpdateSucceeded(i)
     => /\ response[i].status = 200
        /\ response[i].body.success = JsBool(FALSE)
        /\ response[i].body.retryable = JsBool(TRUE)

C30_NoRepairWithoutStringContent ==
  \A i \in Invocations :
    (/\ Done(i)
     /\ CallDelivered(i, 1)
     /\ NoUsableContent(DataOf(i, 1))
     /\ ~isRetryableMessage(firstPass(DataOf(i, 1)).error))
    => PlaceholderWithNullIsStored(i)

\* The same where the content, if there is any, is falsy
C30_NoRepairWithoutTruthyContent ==
  \A i \in Invocations :
    (/\ Done(i)
     /\ CallDelivered(i, 1)
     /\ NoUsableContent(DataOf(i, 1))
     /\ ~Truthy(firstPass(DataOf(i, 1)).rawContent)
     /\ ~isRetryableMessage(firstPass(DataOf(i, 1)).error))
    => PlaceholderWithNullIsStored(i)

====
